---- MODULE Spec2Model ----
(***************************************************************************)
(* A model of the giveaway cog (src/cogs/giveaway.py): the contest store   *)
(* active_giveaways, the periodic task check_giveaways, the coroutine      *)
(* end_giveaway and the giveaway commands, together with the               *)
(* pure function parse_time.  Coroutines run on one event loop: a step of  *)
(* the model is the code executed between two awaits.                      *)
(***************************************************************************)
EXTENDS Integers, Sequences, FiniteSets, TLC

(***************************************************************************)
(* Bounds of the model.                                                    *)
(***************************************************************************)
\* Longest input string handed to parse_time under ParseSpec.
MaxLen == 3
\* Number of giveaway messages the platform hands out (contests created).
MaxGiveaways == 2
\* Number of commands that are suspended at an await at the same time.
MaxCommands == 1
\* Last value of the clock.
MaxTime == 1
\* Largest number written in a counting channel.
MaxNumber == 3
\* Number of on_message handlers that are suspended at the same time.
MaxPending == 2
\* Largest balance a command may produce.
MaxCoins == 3000
\* Number of unmute_task tasks that are created.
MaxTimers == 2
\* Last second of the clock of the mutes.
MaxMuteTime == 3

(***************************************************************************)
(* Program constants.                                                      *)
(***************************************************************************)
\* "You can have at most 20 winners!"
MaxWinners == 20

VARIABLES
    active_giveaways,  \* self.active_giveaways: message id -> giveaway dict
    now,               \* datetime.datetime.now(), in seconds
    next_id,           \* the id the platform gives the next giveaway message
    ready,             \* the bot has signalled readiness (wait_until_ready returns)
    tick,              \* the check_giveaways task: position, snapshot of now and keys
    eg,                \* the end_giveaway coroutine of each caller: position and locals
    endcmd,            \* the end command: position
    cancel,            \* the cancel command: position and message_id
    create,            \* the create command: position and locals
    reroll,            \* the reroll command: position and locals
    settled,           \* history: per id, the callers whose end_giveaway announced winners
    announced,         \* output: the id whose winners the latest step announced (0: none)
    draw,              \* output: the winners the latest step determined, and from what
    reply,             \* output: what the latest step sent to a command's caller
    log,               \* output: what the latest step logged, <<message, id>> each
    rerolled,          \* output: the winners the latest step of a reroll determined
    listed,            \* output: the ids the latest step of the list command showed
    parseIn,           \* the string handed to parse_time (ParseSpec)
    parseOut,          \* what parse_time did with it (ParseSpec)
    counting_channels, \* self.counting_channels: channel id -> game dict (CountSpec)
    pending,           \* the on_message handlers suspended in channel.send
    counted,           \* output: what the latest step of the counting cog did
    hangman_games,     \* self.hangman.games: channel id -> game dict (HangSpec)
    hang,              \* the hangman command of each channel: where its game loop is
    guess_games,       \* self.guess_games: channel id -> game dict (GuessSpec)
    ng,                \* the numguess command of each channel: where its game loop is
    view,              \* the TicTacToeView of the latest !tictactoe, NoView before the first (TttSpec)
    click,             \* output: who pressed the latest button
    winIn,             \* the board handed to check_winner (WinSpec)
    winOut,            \* what check_winner returned for it (WinSpec)
    economy_data,      \* self.economy_data: user id -> user data (EconSpec)
    buying,            \* the buy commands suspended in process_purchase: user -> item
    given,             \* output: the latest give command and whether it moved coins
    muted_users,       \* self.muted_users: member id -> mute info (MuteSpec)
    has_role,          \* the members who have the Muted role
    mute,              \* the mute command on each member: where it is
    unmute,            \* the unmute command on each member: where it is
    timers,            \* the unmute_task tasks that were created and have not ended
    next_timer,        \* the number of unmute_task tasks created so far, plus one
    utcnow             \* the clock, in seconds

vars == <<active_giveaways, now, next_id, ready, tick, eg,
          endcmd, cancel, create, reroll, settled, announced, draw, reply, log,
          rerolled, listed, parseIn, parseOut, counting_channels, pending,
          counted,
          hangman_games, hang,
          guess_games, ng,
          view, click,
          winIn, winOut,
          economy_data, buying, given,
          muted_users, has_role, mute, unmute, timers, next_timer, utcnow>>

(***************************************************************************)
(* Strings are sequences of one-character strings.                         *)
(***************************************************************************)
DigitChars == {"0", "1", "2", "3", "5"}
UnitChars == {"s", "m", "h", "d"}
UpperUnitChars == {"S", "M", "H", "D"}
OtherChars == {"x", "-"}
Chars == DigitChars \cup UnitChars \cup UpperUnitChars \cup OtherChars

StringsUpTo(n) == UNION {[1..k -> Chars] : k \in 0..n}

IsDigit(c) == c \in {"0", "1", "2", "3", "4", "5", "6", "7", "8", "9"}

DigitVal(c) ==
    CASE c = "0" -> 0 [] c = "1" -> 1 [] c = "2" -> 2 [] c = "3" -> 3
      [] c = "4" -> 4 [] c = "5" -> 5 [] c = "6" -> 6 [] c = "7" -> 7
      [] c = "8" -> 8 [] c = "9" -> 9

\* str.lower(), one character
LowerChar(c) ==
    CASE c = "S" -> "s" [] c = "M" -> "m" [] c = "H" -> "h" [] c = "D" -> "d"
      [] OTHER -> c

Lower(str) == [i \in 1..Len(str) |-> LowerChar(str[i])]

\* the length of the longest prefix of digits: what a greedy \d+ consumes
RECURSIVE DigitPrefixLen(_, _)
DigitPrefixLen(str, i) ==
    IF i <= Len(str) /\ IsDigit(str[i]) THEN DigitPrefixLen(str, i + 1) ELSE i - 1

\* int() of a string of decimal digits
RECURSIVE DecimalValue(_, _)
DecimalValue(str, n) ==
    IF n = 0 THEN 0 ELSE 10 * DecimalValue(str, n - 1) + DigitVal(str[n])

UnitSeconds(u) ==
    CASE u = "s" -> 1 [] u = "m" -> 60 [] u = "h" -> 3600 [] u = "d" -> 86400

NotCalled == [raised |-> FALSE, value |-> -1]
Returned(v) == [raised |-> FALSE, value |-> v]
ValueError == [raised |-> TRUE, value |-> 0]

\* re.match(r'(\d+)([smhd])', s): the pattern is matched at the start of s and
\* nothing is asked of what follows the unit letter.
ReMatch(s) ==
    LET n == DigitPrefixLen(s, 1) IN
    n >= 1 /\ Len(s) > n /\ s[n + 1] \in UnitChars

\* parse_time without the multiplication by the unit (a plausible slip)
parse_time_no_unit(time_str) ==
    LET s == Lower(time_str)
        n == DigitPrefixLen(s, 1)
    IN  IF ~ReMatch(s) THEN ValueError ELSE Returned(DecimalValue(s, n))

parse_time(time_str) ==
    LET s == Lower(time_str)
        n == DigitPrefixLen(s, 1)
    IN  IF ~ReMatch(s) THEN ValueError
        ELSE Returned(DecimalValue(s, n) * UnitSeconds(s[n + 1]))


\* int(winners_str): an optional sign, then one or more decimal digits
int(str) ==
    LET neg == Len(str) >= 1 /\ str[1] = "-"
        body == IF neg THEN SubSeq(str, 2, Len(str)) ELSE str
    IN  IF Len(body) >= 1 /\ DigitPrefixLen(body, 1) = Len(body)
        THEN Returned((IF neg THEN -1 ELSE 1) * DecimalValue(body, Len(body)))
        ELSE ValueError

(***************************************************************************)
(* The platform: users, the channel, message ids.                          *)
(***************************************************************************)
NonBots == {"u1", "u2"}
Bots == {"bot"}
Users == NonBots \cup Bots
\* who the platform reports to have reacted: the bot, which reacts when the
\* giveaway is created (line 134), alone, with one entrant, with two entrants
ReactorSets == {{"bot"}, {"u1", "bot"}, {"u1", "u2", "bot"}}
Host == "u1"
TheChannel == "c1"
Prizes == {"p1", "p2"}
Ids == 1..MaxGiveaways
Callers == {"tick", "end"}

\* what the create command is invoked with: <<time_str, winners_str, prize>>,
\* acceptable arguments and arguments with one thing wrong
CreateArgs ==
    {<<<<"1", "s">>, <<"1">>, "p1">>, <<<<"1", "s">>, <<"2">>, "p2">>}
    \cup {<<t, <<"1">>, "p1">> :
            t \in {<<"0", "s">>, <<"1", "S", "x">>, <<"x">>, <<"s">>, <<"1">>}}
    \cup {<<<<"1", "s">>, w, "p1">> :
            w \in {<<"0">>, <<"2", "1">>, <<"2", "0">>, <<"x">>, <<"-", "1">>}}

Min(a, b) == IF a <= b THEN a ELSE b

\* list(d.keys()): a dict keeps insertion order, and ids are inserted in
\* increasing order (the platform's message ids grow)
RECURSIVE SortedSeq(_)
SortedSeq(S) ==
    IF S = {} THEN <<>>
    ELSE LET m == CHOOSE x \in S : \A y \in S : x <= y
         IN  <<m>> \o SortedSeq(S \ {m})

Keys(d) == SortedSeq(DOMAIN d)

\* d[k] = v for a key that may be new
Put(d, k, v) == [x \in DOMAIN d \cup {k} |-> IF x = k THEN v ELSE d[x]]
\* del d[k]
Del(d, k) == [x \in DOMAIN d \ {k} |-> d[x]]

(***************************************************************************)
(* The contest store and the coroutines' frames.                           *)
(***************************************************************************)
\* the dict create_giveaway stores; the key 'cancelled' is absent until the
\* cancel command sets it, modelled as FALSE
Giveaway(id, prize, winners, end_time) ==
    [channel_id |-> TheChannel, message_id |-> id, host_id |-> Host,
     prize |-> prize, winner_count |-> winners, end_time |-> end_time,
     ended |-> FALSE, cancelled |-> FALSE]

\* end_giveaway's locals: giveaway_id and giveaway['winner_count'] (the texts
\* of the embed and of the announcement are not modelled)
IdleFrame == [pc |-> "idle", id |-> 0, wc |-> 0]
NoDraw == [id |-> 0, wc |-> 0, reaction |-> FALSE, reactors |-> {}, winners |-> <<>>]
StartFrame(id, wc) == [IdleFrame EXCEPT !.pc = "fetch_message", !.id = id, !.wc = wc]
IdleTick(pc) == [pc |-> pc, now |-> 0, ids |-> <<>>, i |-> 0]
IdleCancel == [pc |-> "idle", id |-> 0]
IdleCreate == [pc |-> "idle", prize |-> "", winners |-> 0, end_time |-> 0]
\* the frame of the reroll command: where it is, its message_id, the
\* winner_count of lines 266-280 and its argument winners_str (<<>>: None)
IdleReroll == [pc |-> "idle", id |-> 0, wc |-> 0, winners_str |-> <<>>]
\* no reroll has sampled in the latest step
NoReroll ==
    [id |-> 0, winners_str |-> <<>>, wc |-> 0, reactors |-> {}, winners |-> <<>>]
NoReply == [cmd |-> "", text |-> ""]
Reply(cmd, text) == [cmd |-> cmd, text |-> text]

\* k draws that may repeat a user
SampleWithReplacement(users, k) == [1..k -> users]

\* random.sample(users, k): a sequence of k pairwise different elements
Sample(users, k) ==
    {w \in [1..k -> users] : \A i, j \in 1..k : i # j => w[i] # w[j]}

\* winner_count = min(giveaway['winner_count'], len(users))
WinnerCount(wc, users) == Min(wc, Cardinality(users))

\* the users of the reaction, bots excluded (lines 202-205)
NonBotUsers(reactors) == {u \in reactors : u \notin Bots}

\* line 174 flipping the flag instead of setting it
MarkEndedFlipped(store, id) == [store EXCEPT ![id].ended = ~@]

\* line 174 with the end time overwritten as well
MarkEndedAtZero(store, id) == [store EXCEPT ![id].ended = TRUE, ![id].end_time = 0]

\* the store with the ended flag left as it is
MarkEndedSkipped(store, id) == store

(***************************************************************************)
(* end_giveaway up to its first await (lines 168-184): the ended flag is   *)
(* set before the channel is looked up.                                    *)
(***************************************************************************)
MarkEnded(store, id) == [store EXCEPT ![id].ended = TRUE]

\* line 50 with > for >=
DueStrictlyAfter(t, giveaway) == t > giveaway.end_time

\* line 50 reaching one second ahead
DueOneEarly(t, giveaway) == t + 1 >= giveaway.end_time

\* line 50: if now >= giveaway['end_time']
Due(t, giveaway) == t >= giveaway.end_time

\* the body of check_giveaways from index i of its key snapshot until it is
\* suspended in end_giveaway, fails or is done (lines 46-54); channel tells
\* whether bot.get_channel finds the channel, logged is what has been logged
RECURSIVE TickRun(_, _, _, _, _, _)
TickRun(store, ids, i, t, channel, logged) ==
    IF i > Len(ids)
    THEN [store |-> store, tick |-> IdleTick("sleep"), frame |-> IdleFrame,
          log |-> logged]
    ELSE LET id == ids[i] IN
         IF id \notin DOMAIN store
         THEN \* self.active_giveaways[giveaway_id] raises KeyError outside the try
              [store |-> store, tick |-> IdleTick("failed"), frame |-> IdleFrame,
               log |-> logged]
         ELSE IF Due(t, store[id])
         THEN IF channel
              THEN [store |-> MarkEnded(store, id),
                    tick |-> [pc |-> "in_end", now |-> t, ids |-> ids, i |-> i],
                    frame |-> StartFrame(id, store[id].winner_count),
                    log |-> logged]
              ELSE TickRun(MarkEnded(store, id), ids, i + 1, t, channel,
                           logged \cup {<<"channel_not_found", id>>})
         ELSE TickRun(store, ids, i + 1, t, channel, logged)

(***************************************************************************)
(* Initial state: the cog has just been constructed (lines 15-18).         *)
(***************************************************************************)
LifecycleInit ==
    /\ active_giveaways = << >>
    /\ now = 0
    /\ next_id = 1
    /\ ready = FALSE
    /\ tick = IdleTick("before_loop")
    /\ eg = [c \in Callers |-> IdleFrame]
    /\ endcmd = "idle"
    /\ cancel = IdleCancel
    /\ create = IdleCreate
    /\ reroll = IdleReroll
    /\ settled = [id \in Ids |-> {}]
    /\ announced = 0
    /\ draw = NoDraw
    /\ reply = NoReply
    /\ log = {}
    /\ rerolled = NoReroll
    /\ listed = {}

\* Counting.__init__ (counting.py, lines 13-15): no game yet
CountingStart ==
    /\ counting_channels = << >>
    /\ pending = {}
    /\ counted = [kind |-> "", author |-> "none", number |-> 0]

HangChannels == {"c1"}

IdleHang == [pc |-> "idle", letter |-> ""]

GuessChannels == {"c1"}

\* no view yet
NoView == [finished |-> TRUE]

\* lines 100-102
X == -1
O == 1
Tie == 2
\* line 158: the None that check_winner returns while the game goes on
NoWinner == 0

Cells == 0..2

\* lines 112-116
EmptyBoard == [y \in Cells |-> [x \in Cells |-> 0]]

\* check_winner has not been called, and what it returned
WinNotCalled == [called |-> FALSE, value |-> 0]
WinReturned(v) == [called |-> TRUE, value |-> v]

\* no call of check_winner outside a game
WinStart ==
    /\ winIn = EmptyBoard
    /\ winOut = WinNotCalled

\* no give command in the latest step
NoGive == [author |-> "none", member |-> "none", amount |-> 0, done |-> FALSE]

\* the members of the guild who are muted and unmuted
Members == {"u1"}

\* no mute command is running on the member
IdleMute == [pc |-> "idle", seconds |-> 0]

\* the cogs modelled further below, before their first command
RestStart ==
    /\ TRUE
    /\ hangman_games = << >>
    /\ hang = [channel \in HangChannels |-> IdleHang]
    /\ guess_games = << >>
    /\ ng = [channel \in GuessChannels |-> "idle"]
    /\ view = NoView
    /\ click = "none"
    /\ economy_data = << >>
    /\ buying = << >>
    /\ given = NoGive
    /\ muted_users = << >>
    /\ has_role = {}
    /\ mute = [member \in Members |-> IdleMute]
    /\ unmute = [member \in Members |-> "idle"]
    /\ timers = {}
    /\ next_timer = 1
    /\ utcnow = 0

Init ==
    /\ LifecycleInit
    /\ parseIn = <<>>
    /\ parseOut = NotCalled
    /\ CountingStart
    /\ RestStart
    /\ WinStart

envVars == <<now, ready>>
parseVars == <<parseIn, parseOut>>
countVars == <<counting_channels, pending, counted>>
giveawayVars ==
    <<active_giveaways, now, next_id, ready, tick, eg, endcmd, cancel, create,
      reroll, settled, announced, draw, reply, log, rerolled, listed>>

hangVars == <<hangman_games, hang>>
guessVars == <<guess_games, ng>>
tttVars == <<view, click>>
winVars == <<winIn, winOut>>
econVars == <<economy_data, buying, given>>
muteVars == <<muted_users, has_role, mute, unmute, timers, next_timer, utcnow>>
restVars == <<hangVars, guessVars, tttVars, winVars, econVars, muteVars>>
\* what the giveaway cog leaves alone
otherVars == <<parseVars, countVars, restVars>>
gamesVars == <<hangVars, guessVars, tttVars, winVars>>
notHang == <<guessVars, tttVars, winVars, econVars, muteVars>>
notGuess == <<hangVars, tttVars, winVars, econVars, muteVars>>
notTtt == <<hangVars, guessVars, winVars, econVars, muteVars>>
notWin == <<hangVars, guessVars, tttVars, econVars, muteVars>>
notEcon == <<gamesVars, muteVars>>
notMute == <<gamesVars, econVars>>
\* the cogs modelled first, which the later ones leave alone
baseVars == <<giveawayVars, parseVars, countVars>>

\* the cog is loaded: its commands can be invoked
Loaded == tick.pc # "cancelled"

\* the commands that are suspended at an await
InFlight ==
    (IF endcmd # "idle" THEN 1 ELSE 0) + (IF cancel.pc # "idle" THEN 1 ELSE 0)
    + (IF create.pc # "idle" THEN 1 ELSE 0) + (IF reroll.pc # "idle" THEN 1 ELSE 0)
CanInvoke == Loaded /\ InFlight < MaxCommands

\* what a step sends and logs
Out(r, a, d, l) ==
    /\ reply' = r /\ announced' = a /\ draw' = d /\ log' = l
    /\ rerolled' = NoReroll /\ listed' = {}
Quiet == Out(NoReply, 0, NoDraw, {})

\* lines 159, 257, 383 with the reply of a command that went through
NotFoundAsEnded(cmd) == Out(Reply(cmd, "ended"), 0, NoDraw, {})

\* lines 158-160, 256-258, 382-384: the id is not in active_giveaways, the
\* command replies "No active giveaway found with that ID!" (reroll: "No
\* giveaway found with that ID!") and returns
NotFound(cmd) == Out(Reply(cmd, "not_found"), 0, NoDraw, {})

\* the outputs are labels of the step that produced them: they are taken off
\* (Deliver) before the next step of the program
Delivered ==
    /\ reply = NoReply /\ announced = 0 /\ draw = NoDraw /\ log = {}
    /\ rerolled = NoReroll /\ listed = {}

Deliver ==
    /\ ~Delivered
    /\ Quiet
    /\ UNCHANGED <<active_giveaways, next_id, envVars, tick, eg, endcmd, cancel,
                   create, settled, reroll, otherVars>>

(***************************************************************************)
(* The environment.                                                        *)
(***************************************************************************)
AdvanceClock ==
    /\ Delivered
    /\ now < MaxTime
    /\ now' = now + 1
    /\ Quiet
    /\ UNCHANGED <<active_giveaways, next_id, ready, tick, eg,
                   endcmd, cancel, create, settled, reroll, otherVars>>

BotReady ==
    /\ Delivered
    /\ ~ready
    /\ ready' = TRUE
    /\ Quiet
    /\ UNCHANGED <<active_giveaways, now, next_id, tick, eg,
                   endcmd, cancel, create, settled, reroll, otherVars>>

(***************************************************************************)
(* The task check_giveaways (lines 37-59) and cog_unload (lines 20-22).    *)
(***************************************************************************)
\* before_loop without await self.bot.wait_until_ready() (line 59)
before_check_giveaways_no_wait ==
    /\ Delivered
    /\ tick.pc = "before_loop"
    /\ tick' = IdleTick("sleep")
    /\ Quiet
    /\ UNCHANGED <<active_giveaways, next_id, envVars, eg, endcmd, cancel,
                   create, settled, reroll, otherVars>>

before_check_giveaways ==
    /\ Delivered
    /\ tick.pc = "before_loop"
    /\ ready
    /\ tick' = IdleTick("sleep")
    /\ Quiet
    /\ UNCHANGED <<active_giveaways, next_id, envVars, eg, endcmd, cancel,
                   create, settled, reroll, otherVars>>

\* one iteration of the loop, up to its first await; channel: whether
\* bot.get_channel finds the giveaway channel in the bot's cache
check_giveaways(channel) ==
    /\ Delivered
    /\ tick.pc = "sleep"
    /\ LET r == TickRun(active_giveaways, Keys(active_giveaways), 1, now, channel, {})
       IN  /\ active_giveaways' = r.store
           /\ tick' = r.tick
           /\ eg' = [eg EXCEPT !["tick"] = r.frame]
           /\ Out(NoReply, 0, NoDraw, r.log)
    /\ UNCHANGED <<next_id, envVars, endcmd, cancel, create, settled, reroll, otherVars>>

\* cog_unload with the settlement the task is suspended in left running
cog_unload_frame_kept ==
    /\ Delivered
    /\ Loaded
    /\ tick' = [tick EXCEPT !.pc = "cancelled"]
    /\ Quiet
    /\ UNCHANGED <<active_giveaways, next_id, envVars, eg, endcmd, cancel, create,
                   settled, reroll, otherVars>>

\* the task is cancelled wherever it is suspended (CancelledError is not an
\* Exception, so line 53 does not catch it); tick keeps what the task was at,
\* its snapshot and the index it had reached; the cog's commands are removed
cog_unload ==
    /\ Delivered
    /\ Loaded
    /\ tick' = [tick EXCEPT !.pc = "cancelled"]
    /\ eg' = [eg EXCEPT !["tick"] = IdleFrame]
    /\ Quiet
    /\ UNCHANGED <<active_giveaways, next_id, envVars, endcmd, cancel, create,
                   settled, reroll, otherVars>>

(***************************************************************************)
(* Where end_giveaway's caller goes on when end_giveaway returns or        *)
(* raises: the task's loop catches and logs the exception and visits the   *)
(* next key (lines 51-54); the end command replies (line 164) or fails.    *)
(* a: the id announced by the step, logged: what end_giveaway logged.      *)
(* The message of line 54 carries the exception, which tells the await     *)
(* that raised it: the log entry <<"exception", pc>>.                      *)
(***************************************************************************)
EgReturn(c, raised, a, logged) ==
    IF c = "tick"
    THEN \E channel \in BOOLEAN :
           LET l == IF raised
                    THEN logged \cup {<<"error_ending", eg[c].id>>,
                                      <<"exception", eg[c].pc>>}
                    ELSE logged
               r == TickRun(active_giveaways, tick.ids, tick.i + 1, tick.now,
                            channel, l)
           IN  /\ active_giveaways' = r.store
               /\ tick' = r.tick
               /\ eg' = [eg EXCEPT ![c] = r.frame]
               /\ Out(NoReply, a, NoDraw, r.log)
               /\ UNCHANGED endcmd
    ELSE /\ eg' = [eg EXCEPT ![c] = IdleFrame]
         /\ endcmd' = "idle"
         /\ Out(Reply("end", IF raised THEN "error" ELSE "ended"), a, NoDraw, logged)
         /\ UNCHANGED <<active_giveaways, tick>>

\* end_giveaway goes on to its next await
EgGoto(c, pc) ==
    /\ eg' = [eg EXCEPT ![c].pc = pc]
    /\ UNCHANGED <<active_giveaways, tick, endcmd>>

\* winners have been determined
Winners(c, reaction, reactors, winners) ==
    Out(NoReply, 0,
        [id |-> eg[c].id, wc |-> eg[c].wc, reaction |-> reaction,
         reactors |-> reactors, winners |-> winners], {})

(***************************************************************************)
(* end_giveaway after its first await (lines 184-242).                     *)
(***************************************************************************)
\* await channel.fetch_message(...) and the scan of message.reactions
EgFetchMessage(c) ==
    /\ Delivered
    /\ eg[c].pc = "fetch_message"
    /\ \/ \* discord.NotFound: logged, return
          EgReturn(c, FALSE, 0, {<<"message_not_found", eg[c].id>>})
       \/ \* the message has a giveaway reaction
          EgGoto(c, "users") /\ Quiet
       \/ \* no giveaway reaction: winners = []
          EgGoto(c, "edit") /\ Winners(c, FALSE, {}, <<>>)
       \/ \* another HTTP error
          EgReturn(c, TRUE, 0, {})
    /\ UNCHANGED <<next_id, envVars, cancel, create, settled, reroll, otherVars>>

\* lines 201-209: async for user in reaction.users() hands over the reactors,
\* bots are left out, winners are sampled
EgUsers(c) ==
    /\ Delivered
    /\ eg[c].pc = "users"
    /\ \/ \E reactors \in ReactorSets :
            LET users == NonBotUsers(reactors)
                winner_count == WinnerCount(eg[c].wc, users)
            IN  \E winners \in Sample(users, winner_count) :
                  /\ EgGoto(c, "edit")
                  /\ Winners(c, TRUE, reactors, winners)
       \/ EgReturn(c, TRUE, 0, {})
    /\ UNCHANGED <<next_id, envVars, cancel, create, settled, reroll, otherVars>>

\* lines 226-235: host = await self.bot.fetch_user(...), then
\* await message.edit(embed=embed); nothing shared is read or written between
\* the two awaits, they are one step
EgEdit(c) ==
    /\ Delivered
    /\ eg[c].pc = "edit"
    /\ \/ EgGoto(c, "send") /\ Quiet
       \/ EgReturn(c, TRUE, 0, {})
    /\ UNCHANGED <<next_id, envVars, cancel, create, settled, reroll, otherVars>>

\* await channel.send(...): the announcement, which completes the settlement
EgSend(c) ==
    /\ Delivered
    /\ eg[c].pc = "send"
    /\ \/ /\ EgReturn(c, FALSE, eg[c].id, {})
          /\ settled' = [settled EXCEPT ![eg[c].id] = @ \cup {c}]
       \/ /\ EgReturn(c, TRUE, 0, {})
          /\ UNCHANGED settled
    /\ UNCHANGED <<next_id, envVars, cancel, create, reroll, otherVars>>

(***************************************************************************)
(* The end command (lines 149-164).                                        *)
(***************************************************************************)
end_giveaway_command(message_id, channel) ==
    /\ Delivered
    /\ CanInvoke
    /\ endcmd = "idle"
    /\ IF message_id \notin DOMAIN active_giveaways
       THEN /\ NotFound("end")
            /\ UNCHANGED <<active_giveaways, eg, endcmd>>
       ELSE /\ active_giveaways' = MarkEnded(active_giveaways, message_id)
            /\ IF channel
               THEN /\ eg' = [eg EXCEPT !["end"] =
                                StartFrame(message_id,
                                           active_giveaways[message_id].winner_count)]
                    /\ endcmd' = "in_end"
                    /\ Quiet
               ELSE \* end_giveaway logs and returns; the command reports success
                    /\ Out(Reply("end", "ended"), 0, NoDraw,
                           {<<"channel_not_found", message_id>>})
                    /\ UNCHANGED <<eg, endcmd>>
    /\ UNCHANGED <<next_id, envVars, tick, cancel, create, settled, reroll, otherVars>>

(***************************************************************************)
(* The cancel command (lines 373-430).                                     *)
(***************************************************************************)
cancel_giveaway(message_id, channel) ==
    /\ Delivered
    /\ CanInvoke
    /\ cancel.pc = "idle"
    /\ IF message_id \notin DOMAIN active_giveaways
       THEN NotFound("cancel") /\ UNCHANGED cancel
       ELSE IF active_giveaways[message_id].ended
       THEN Out(Reply("cancel", "already_ended"), 0, NoDraw, {}) /\ UNCHANGED cancel
       ELSE IF ~channel
       THEN Out(Reply("cancel", "no_channel"), 0, NoDraw, {}) /\ UNCHANGED cancel
       ELSE cancel' = [pc |-> "fetch_message", id |-> message_id] /\ Quiet
    /\ UNCHANGED <<active_giveaways, next_id, envVars, tick, eg, endcmd, create,
                   settled, reroll, otherVars>>

\* except discord.NotFound: reply, then del self.active_giveaways[message_id]
CancelNotFound ==
    /\ active_giveaways' = Del(active_giveaways, cancel.id)
    /\ Out(Reply("cancel", "no_message"), 0, NoDraw, {})
    /\ cancel' = IdleCancel

\* any other exception leaves the command
CancelError ==
    /\ Out(Reply("cancel", "error"), 0, NoDraw, {})
    /\ cancel' = IdleCancel
    /\ UNCHANGED active_giveaways

\* lines 421-423 with the second flag forgotten
MarkEndedOnly(store, id) == [store EXCEPT ![id].ended = TRUE]

\* lines 421-423: giveaway['ended'] = True, giveaway['cancelled'] = True
MarkCancelled(store, id) ==
    [store EXCEPT ![id].ended = TRUE, ![id].cancelled = TRUE]

\* message = await channel.fetch_message(...)
CancelFetchMessage ==
    /\ Delivered
    /\ cancel.pc = "fetch_message"
    /\ \/ CancelNotFound
       \/ /\ cancel' = [cancel EXCEPT !.pc = "fetch_user"]
          /\ Quiet
          /\ UNCHANGED active_giveaways
       \/ CancelError
    /\ UNCHANGED <<next_id, envVars, tick, eg, endcmd, create, settled, reroll, otherVars>>

\* line 410: host = await self.bot.fetch_user(giveaway['host_id']), inside the
\* same try: an unknown user is a discord.NotFound too
CancelFetchUser ==
    /\ Delivered
    /\ cancel.pc = "fetch_user"
    /\ \/ CancelNotFound
       \/ /\ cancel' = [cancel EXCEPT !.pc = "edit"]
          /\ Quiet
          /\ UNCHANGED active_giveaways
       \/ CancelError
    /\ UNCHANGED <<next_id, envVars, tick, eg, endcmd, create, settled, reroll, otherVars>>

\* lines 419-425: await message.edit(embed=embed) (NotFound when the message
\* has been deleted meanwhile), then the flags and the reply
CancelEdit ==
    /\ Delivered
    /\ cancel.pc = "edit"
    /\ \/ CancelNotFound
       \/ /\ active_giveaways' = MarkCancelled(active_giveaways, cancel.id)
          /\ Out(Reply("cancel", "cancelled"), 0, NoDraw, {})
          /\ cancel' = IdleCancel
       \/ CancelError
    /\ UNCHANGED <<next_id, envVars, tick, eg, endcmd, create, settled, reroll, otherVars>>

(***************************************************************************)
(* The create command (lines 79-147).                                      *)
(***************************************************************************)
\* the checks of the arguments (lines 91-112): the reply, or "" when they pass
CreateCheck(time_str, winners_str) ==
    LET seconds == parse_time(time_str)
        winners == int(winners_str)
    IN  IF seconds.raised THEN "invalid_time_format"
        ELSE IF seconds.value <= 0 THEN "time_not_positive"
        ELSE IF winners.raised THEN "winners_not_number"
        ELSE IF winners.value <= 0 THEN "winners_not_positive"
        ELSE IF winners.value > MaxWinners THEN "too_many_winners"
        ELSE ""

\* the end time taken without the duration
EndTimeNoDuration(t, seconds) == t

\* end_time = datetime.datetime.now() + datetime.timedelta(seconds=seconds)
EndTime(t, seconds) == t + seconds

\* lines 91-133: the arguments are checked, the end time is computed and the
\* giveaway message is being sent
create_giveaway(time_str, winners_str, prize) ==
    /\ Delivered
    /\ CanInvoke
    /\ create.pc = "idle"
    /\ next_id <= MaxGiveaways
    /\ LET err == CreateCheck(time_str, winners_str) IN
       IF err # ""
       THEN /\ Out(Reply("create", err), 0, NoDraw, {})
            /\ UNCHANGED create
       ELSE /\ create' = [pc |-> "posting", prize |-> prize,
                          winners |-> int(winners_str).value,
                          end_time |-> EndTime(now, parse_time(time_str).value)]
            /\ Quiet
    /\ UNCHANGED <<active_giveaways, next_id, envVars, tick, eg, endcmd, cancel,
                   settled, reroll, otherVars>>

\* self.active_giveaways[giveaway_message.id] = {...}
Store(store, id, giveaway) == Put(store, id, giveaway)

\* lines 133-147: the message is posted and gets its id, the reaction is added,
\* the giveaway is stored under the message's id; or sending raises
CreatePosted ==
    /\ Delivered
    /\ create.pc = "posting"
    /\ \/ /\ active_giveaways' =
                Store(active_giveaways, next_id,
                      Giveaway(next_id, create.prize, create.winners, create.end_time))
          /\ next_id' = next_id + 1
          /\ Out(Reply("create", "created"), 0, NoDraw, {})
       \/ /\ Out(Reply("create", "error"), 0, NoDraw, {})
          /\ UNCHANGED <<active_giveaways, next_id>>
    /\ create' = IdleCreate
    /\ UNCHANGED <<envVars, tick, eg, endcmd, cancel, settled, reroll, otherVars>>

(***************************************************************************)
(* The list command (lines 322-371): no await before its only send.        *)
(***************************************************************************)
\* every stored contest, whatever its flags
AllKeys(store) == DOMAIN store

\* line 329: {gid: g for gid, g in self.active_giveaways.items() if not g['ended']}
ListFilter(store) == {gid \in DOMAIN store : ~store[gid].ended}

list_giveaways ==
    /\ Delivered
    /\ CanInvoke
    /\ listed' = ListFilter(active_giveaways)
    /\ reply' = Reply("list", IF listed' = {} THEN "none" ELSE "embed")
    /\ announced' = 0 /\ draw' = NoDraw /\ log' = {} /\ rerolled' = NoReroll
    /\ UNCHANGED <<active_giveaways, next_id, envVars, tick, eg, endcmd, cancel,
                   create, settled, reroll, otherVars>>

(***************************************************************************)
(* The reroll command (lines 247-320).                                     *)
(***************************************************************************)
\* the optional argument winners_str: absent (<<>>) or a string
RerollArgs == {<<>>, <<"1">>, <<"0">>, <<"2", "1">>}

\* lines 267-278: the checks of winners_str, "" when they pass or it is absent
RerollCheck(winners_str) ==
    IF winners_str = <<>> THEN ""
    ELSE LET winner_count == int(winners_str) IN
         IF winner_count.raised THEN "winners_not_number"
         ELSE IF winner_count.value <= 0 THEN "winners_not_positive"
         ELSE IF winner_count.value > MaxWinners THEN "too_many_winners"
         ELSE ""

\* lines 266-280 with the argument left aside
RerollCountStored(giveaway, winners_str) == giveaway.winner_count

\* lines 266-280: the count asked for, or the contest's own
RerollCount(giveaway, winners_str) ==
    IF winners_str = <<>> THEN giveaway.winner_count ELSE int(winners_str).value

\* the command is over with a reply
RerollReply(text) ==
    /\ reroll' = IdleReroll
    /\ Out(Reply("reroll", text), 0, NoDraw, {})

\* lines 256-286: the checks up to await channel.fetch_message(...); the
\* argument winners_str and the channel lookup are inputs where they are read
reroll_giveaway(message_id) ==
    /\ Delivered
    /\ CanInvoke
    /\ reroll.pc = "idle"
    /\ IF message_id \notin DOMAIN active_giveaways
       THEN reroll' = IdleReroll /\ NotFound("reroll")
       ELSE IF ~active_giveaways[message_id].ended
       THEN RerollReply("not_ended")
       ELSE \E winners_str \in RerollArgs :
              IF RerollCheck(winners_str) # ""
              THEN RerollReply(RerollCheck(winners_str))
              ELSE \E channel \in BOOLEAN :
                     IF ~channel
                     THEN RerollReply("no_channel")
                     ELSE /\ reroll' =
                               [pc |-> "fetch_message", id |-> message_id,
                                wc |-> RerollCount(active_giveaways[message_id],
                                                   winners_str),
                                winners_str |-> winners_str]
                          /\ Quiet
    /\ UNCHANGED <<active_giveaways, next_id, envVars, tick, eg, endcmd, cancel,
                   create, settled, otherVars>>

\* lines 311-320 storing the count the reroll used in the contest
AfterRerollKeepsCount(store, id, wc) ==
    IF id \in DOMAIN store THEN [store EXCEPT ![id].winner_count = wc] ELSE store

\* lines 311-320: the winners are sent to the caller and the command returns;
\* nothing is written to the giveaway dict
AfterReroll(store, id, wc) == store

\* lines 288-320: the message is fetched, its reactions are scanned, the
\* reactors are read, bots are left out, winners are sampled and sent to the
\* caller; the command reads and writes nothing shared after its first await,
\* so its awaits are one step
RerollFetchMessage ==
    /\ Delivered
    /\ reroll.pc = "fetch_message"
    /\ \/ RerollReply("no_message") /\ UNCHANGED active_giveaways    \* NotFound
       \/ RerollReply("no_reactions") /\ UNCHANGED active_giveaways  \* no reaction
       \/ \E reactors \in ReactorSets :
            LET users == NonBotUsers(reactors)
                winner_count == WinnerCount(reroll.wc, users)
            IN  \E winners \in Sample(users, winner_count) :
                  /\ reply' = Reply("reroll", IF winners # <<>> THEN "new_winners"
                                              ELSE "no_valid_entries")
                  /\ rerolled' = [id |-> reroll.id,
                                  winners_str |-> reroll.winners_str,
                                  wc |-> reroll.wc, reactors |-> reactors,
                                  winners |-> winners]
                  /\ announced' = 0 /\ draw' = NoDraw /\ log' = {} /\ listed' = {}
                  /\ reroll' = IdleReroll
                  /\ active_giveaways' =
                        AfterReroll(active_giveaways, reroll.id, winner_count)
       \/ RerollReply("error") /\ UNCHANGED active_giveaways   \* another HTTP error
    /\ UNCHANGED <<next_id, envVars, tick, eg, endcmd, cancel,
                   create, settled, otherVars>>

(***************************************************************************)
(* The specification of the giveaway cog.                                  *)
(***************************************************************************)
Next ==
    \/ Deliver
    \/ AdvanceClock
    \/ BotReady
    \/ before_check_giveaways
    \/ \E channel \in BOOLEAN : check_giveaways(channel)
    \/ cog_unload
    \/ \E c \in Callers : EgFetchMessage(c)
    \/ \E c \in Callers : EgUsers(c)
    \/ \E c \in Callers : EgEdit(c)
    \/ \E c \in Callers : EgSend(c)
    \/ \E id \in Ids, channel \in BOOLEAN : end_giveaway_command(id, channel)
    \/ \E id \in Ids, channel \in BOOLEAN : cancel_giveaway(id, channel)
    \/ CancelFetchMessage
    \/ CancelFetchUser
    \/ CancelEdit
    \/ \E a \in CreateArgs : create_giveaway(a[1], a[2], a[3])
    \/ CreatePosted
    \/ list_giveaways
    \/ \E id \in Ids : reroll_giveaway(id)
    \/ RerollFetchMessage

Spec == Init /\ [][Next]_vars

(***************************************************************************)
(* parse_time on its own: every string up to MaxLen characters.            *)
(***************************************************************************)
ParseInit ==
    /\ LifecycleInit
    /\ parseIn \in StringsUpTo(MaxLen)
    /\ parseOut = NotCalled
    /\ CountingStart
    /\ RestStart
    /\ WinStart

ParseCall ==
    /\ parseOut = NotCalled
    /\ parseOut' = parse_time(parseIn)
    /\ UNCHANGED <<active_giveaways, next_id, envVars, tick, eg, endcmd, cancel,
                   create, reroll, settled, announced, draw, reply, log,
                   rerolled, listed, parseIn, countVars, restVars>>

ParseNext == ParseCall

ParseSpec == ParseInit /\ [][ParseNext]_vars

(***************************************************************************)
(* The counting cog (src/cogs/counting.py): the games counting_channels,   *)
(* the listener on_message with its two error handlers, and the counting   *)
(* commands.  A handler that reports a mistake is suspended in             *)
(* channel.send before it resets the game; every other handler and every   *)
(* command writes the game before its first await.                         *)
(***************************************************************************)
CountChannels == {"c1"}
None == "none"

\* str(n) for a number of one digit
Numeral(n) ==
    CASE n = 0 -> "0" [] n = 1 -> "1" [] n = 2 -> "2" [] n = 3 -> "3"
      [] n = 4 -> "4" [] n = 5 -> "5" [] n = 6 -> "6" [] n = 7 -> "7"
      [] n = 8 -> "8" [] n = 9 -> "9"

\* message.content: the numbers up to MaxNumber, a number between blanks, a
\* negative number, and texts that are no number
CountContents ==
    {<<Numeral(n)>> : n \in 0..MaxNumber}
    \cup {<<" ", "2", " ">>, <<"-", "1">>, <<"x">>, <<>>}

\* str.strip(): leading and trailing blanks are removed
RECURSIVE Strip(_)
Strip(str) ==
    IF str = <<>> THEN str
    ELSE IF Head(str) = " " THEN Strip(Tail(str))
    ELSE IF str[Len(str)] = " " THEN Strip(SubSeq(str, 1, Len(str) - 1))
    ELSE str

\* the arguments of !counting strict and !counting mode; "" is no argument
ModeWords == {"", "on", "OFF", "silent", "Error", "x"}

\* str.lower() of the words above
LowerWord(w) ==
    CASE w = "OFF" -> "off" [] w = "Error" -> "error" [] OTHER -> w

\* lines 157-164: the game setup_counting stores
NewGame ==
    [next_number |-> 1, last_user |-> None, highest_count |-> 0,
     strict_mode |-> TRUE, error_on_fail |-> TRUE, active |-> TRUE]

\* a handler suspended in channel.send of handle_counting_error ("wrong") or
\* handle_consecutive_error ("twice"); live: the dict it holds as game is
\* still the one stored for the channel
Suspended(channel, kind) == [channel |-> channel, kind |-> kind, live |-> TRUE]

NoCount == [kind |-> "", author |-> None, number |-> 0]
Counted(kind, author, number) == [kind |-> kind, author |-> author, number |-> number]

\* lines 80-81 taking the number itself as the next one
AcceptSameNumber(game, author, number) ==
    [game EXCEPT !.next_number = number, !.last_user = author,
                 !.highest_count = IF number > @ THEN number ELSE @]

\* lines 80-81 without the update of the highest count of lines 84-85
AcceptNoHighest(game, author, number) ==
    [game EXCEPT !.next_number = number + 1, !.last_user = author]

\* lines 80-85: the count is valid
Accept(game, author, number) ==
    [game EXCEPT !.next_number = number + 1, !.last_user = author,
                 !.highest_count = IF number > @ THEN number ELSE @]

\* lines 106-107, 118-119 and 238-239: the count restarts
Restart(game) == [game EXCEPT !.next_number = 1, !.last_user = None]

\* lines 62-77: a mistake; with error_on_fail the handler goes into
\* handle_counting_error / handle_consecutive_error and is suspended in
\* channel.send, otherwise it returns
Mistake(channel, game, kind, author, number) ==
    /\ UNCHANGED counting_channels
    /\ IF game.error_on_fail
       THEN /\ pending' = pending \cup {Suspended(channel, kind)}
            /\ counted' = Counted(kind, author, number)
       ELSE /\ UNCHANGED pending
            /\ counted' = Counted(kind \o "_silent", author, number)

\* lines 41-94: the listener up to its first await
on_message(channel, author, content) ==
    /\ Cardinality(pending) < MaxPending
    /\ IF author \in Bots \/ channel \notin DOMAIN counting_channels
       THEN /\ counted' = Counted("ignored", author, 0)
            /\ UNCHANGED <<counting_channels, pending>>
       ELSE LET game == counting_channels[channel]
                parsed == int(Strip(content))
                number == parsed.value
            IN  IF ~game.active \/ parsed.raised
                THEN /\ counted' = Counted("ignored", author, 0)
                     /\ UNCHANGED <<counting_channels, pending>>
                ELSE IF game.strict_mode /\ number # game.next_number
                THEN Mistake(channel, game, "wrong", author, number)
                ELSE IF ~game.strict_mode /\ number <= game.next_number - 1
                THEN Mistake(channel, game, "wrong", author, number)
                ELSE IF game.last_user = author
                THEN Mistake(channel, game, "twice", author, number)
                ELSE /\ counting_channels' =
                          [counting_channels EXCEPT
                              ![channel] = Accept(game, author, number)]
                     /\ counted' = Counted("accepted", author, number)
                     /\ UNCHANGED pending
    /\ UNCHANGED <<giveawayVars, parseVars, restVars>>

\* a suspended handler goes on: channel.send has returned and the game the
\* handler holds is reset, or channel.send has raised and nothing is written
ErrorSent(f) ==
    /\ f \in pending
    /\ pending' = pending \ {f}
    /\ \/ /\ counting_channels' =
               IF f.live
               THEN [counting_channels EXCEPT ![f.channel] = Restart(@)]
               ELSE counting_channels
          /\ counted' = Counted("restarted", None, 0)
       \/ /\ UNCHANGED counting_channels
          /\ counted' = Counted("send_failed", None, 0)
    /\ UNCHANGED <<giveawayVars, parseVars, restVars>>

\* lines 96-107
handle_counting_error == \E f \in pending : f.kind = "wrong" /\ ErrorSent(f)

\* lines 109-120
handle_consecutive_error == \E f \in pending : f.kind = "twice" /\ ErrorSent(f)

\* a counting command on a channel that has no game (lines 232-234 and alike)
NotSetUp(cmd) ==
    /\ counted' = Counted(cmd \o "_not_set_up", None, 0)
    /\ UNCHANGED <<counting_channels, pending>>

\* the command has written the game and replies
Commanded(channel, cmd, game) ==
    /\ counting_channels' = [counting_channels EXCEPT ![channel] = game]
    /\ counted' = Counted(cmd, None, 0)
    /\ UNCHANGED pending

\* the command replies and writes nothing
Refused(cmd) ==
    /\ counted' = Counted(cmd \o "_refused", None, 0)
    /\ UNCHANGED <<counting_channels, pending>>

\* lines 143-179
setup_counting(channel) ==
    /\ IF channel \in DOMAIN counting_channels
       THEN Refused("setup")
       ELSE /\ counting_channels' = Put(counting_channels, channel, NewGame)
            /\ counted' = Counted("setup", None, 0)
            /\ UNCHANGED pending
    /\ UNCHANGED <<giveawayVars, parseVars, restVars>>

\* lines 223-243
reset_counting(channel) ==
    /\ IF channel \notin DOMAIN counting_channels
       THEN NotSetUp("reset")
       ELSE Commanded(channel, "reset", Restart(counting_channels[channel]))
    /\ UNCHANGED <<giveawayVars, parseVars, restVars>>

\* lines 247-284
set_strict_mode(channel, mode) ==
    /\ IF channel \notin DOMAIN counting_channels
       THEN NotSetUp("strict")
       ELSE IF mode = ""
       THEN Refused("strict")
       ELSE IF LowerWord(mode) \in {"on", "true", "yes", "enable", "enabled"}
       THEN Commanded(channel, "strict",
                      [counting_channels[channel] EXCEPT !.strict_mode = TRUE])
       ELSE IF LowerWord(mode) \in {"off", "false", "no", "disable", "disabled"}
       THEN Commanded(channel, "strict",
                      [counting_channels[channel] EXCEPT !.strict_mode = FALSE])
       ELSE Refused("strict")
    /\ UNCHANGED <<giveawayVars, parseVars, restVars>>

\* lines 288-324
set_error_mode(channel, mode) ==
    /\ IF channel \notin DOMAIN counting_channels
       THEN NotSetUp("mode")
       ELSE IF mode = ""
       THEN Refused("mode")
       ELSE IF LowerWord(mode) \in {"error", "errors", "show", "alert", "alerts"}
       THEN Commanded(channel, "mode",
                      [counting_channels[channel] EXCEPT !.error_on_fail = TRUE])
       ELSE IF LowerWord(mode) \in {"silent", "quiet", "hide", "nothing"}
       THEN Commanded(channel, "mode",
                      [counting_channels[channel] EXCEPT !.error_on_fail = FALSE])
       ELSE Refused("mode")
    /\ UNCHANGED <<giveawayVars, parseVars, restVars>>

\* lines 328-348
stop_counting(channel) ==
    /\ IF channel \notin DOMAIN counting_channels
       THEN NotSetUp("stop")
       ELSE IF ~counting_channels[channel].active
       THEN Refused("stop")
       ELSE Commanded(channel, "stop",
                      [counting_channels[channel] EXCEPT !.active = FALSE])
    /\ UNCHANGED <<giveawayVars, parseVars, restVars>>

\* lines 352-372
start_counting(channel) ==
    /\ IF channel \notin DOMAIN counting_channels
       THEN NotSetUp("start")
       ELSE IF counting_channels[channel].active
       THEN Refused("start")
       ELSE Commanded(channel, "start",
                      [counting_channels[channel] EXCEPT !.active = TRUE])
    /\ UNCHANGED <<giveawayVars, parseVars, restVars>>

\* lines 376-391: del self.counting_channels[channel_id]; the handlers that
\* are suspended keep the dict, which is no longer the stored one
remove_counting(channel) ==
    /\ IF channel \notin DOMAIN counting_channels
       THEN NotSetUp("remove")
       ELSE /\ counting_channels' = Del(counting_channels, channel)
            /\ pending' = {IF f.channel = channel THEN [f EXCEPT !.live = FALSE]
                           ELSE f : f \in pending}
            /\ counted' = Counted("remove", None, 0)
    /\ UNCHANGED <<giveawayVars, parseVars, restVars>>

CountInit ==
    /\ LifecycleInit
    /\ parseIn = <<>>
    /\ parseOut = NotCalled
    /\ CountingStart
    /\ RestStart
    /\ WinStart

CountNext ==
    \/ \E channel \in CountChannels, author \in Users, content \in CountContents :
          on_message(channel, author, content)
    \/ handle_counting_error
    \/ handle_consecutive_error
    \/ \E channel \in CountChannels : setup_counting(channel)
    \/ \E channel \in CountChannels : reset_counting(channel)
    \/ \E channel \in CountChannels, mode \in ModeWords : set_strict_mode(channel, mode)
    \/ \E channel \in CountChannels, mode \in ModeWords : set_error_mode(channel, mode)
    \/ \E channel \in CountChannels : stop_counting(channel)
    \/ \E channel \in CountChannels : start_counting(channel)
    \/ \E channel \in CountChannels : remove_counting(channel)

CountSpec == CountInit /\ [][CountNext]_vars

(***************************************************************************)
(* Hangman (src/cogs/games.py): the class HangmanGame and the command      *)
(* Games.hangman with its game loop.  The command refuses a channel that   *)
(* has a game, so a channel has at most one loop.                          *)
(***************************************************************************)
\* line 181
max_attempts == 6

\* lines 175-180: two of the twenty words
word_list ==
    {<<"s", "e", "r", "v", "e", "r">>, <<"g", "a", "m", "i", "n", "g">>}

\* string.ascii_lowercase
ascii_lowercase ==
    {"a", "b", "c", "d", "e", "f", "g", "h", "i", "j", "k", "l", "m", "n",
     "o", "p", "q", "r", "s", "t", "u", "v", "w", "x", "y", "z"}

\* message.content of what is written while a game runs: letters of the
\* words, letters of no word, a capital, a letter after a blank, two
\* letters, a digit
HangContents ==
    {<<c>> : c \in {"s", "e", "r", "v", "g", "a", "m", "i", "n", "x", "y", "z"}}
    \cup {<<"S">>, <<" ", "e">>, <<"a", "b">>, <<"1">>}

Letters(word) == {word[i] : i \in 1..Len(word)}

\* lines 184-192
start_game(games, channel_id, word) ==
    Put(games, channel_id,
        [word |-> word, guessed |-> {}, attempts |-> max_attempts])

\* lines 224-242
get_game_status(game) ==
    IF game.attempts <= 0 THEN "lost"
    ELSE IF Letters(game.word) \subseteq game.guessed THEN "won"
    ELSE "in_progress"

\* lines 194-222: the game after the guess and what guess returns
guess(game, letter) ==
    IF letter \in game.guessed
    THEN [already_guessed |-> TRUE, game |-> game, status |-> ""]
    ELSE LET after == [game EXCEPT
                          !.guessed = @ \cup {letter},
                          !.attempts = IF letter \notin Letters(game.word)
                                       THEN @ - 1 ELSE @]
         IN  [already_guessed |-> FALSE, game |-> after,
              status |-> get_game_status(after)]

\* lines 333-340
end_game(games, channel_id) ==
    IF channel_id \in DOMAIN games THEN Del(games, channel_id) ELSE games

\* lines 716-723: the check of wait_for
HangCheck(author, content) ==
    /\ author \notin Bots
    /\ Len(Lower(Strip(content))) = 1
    /\ Lower(Strip(content))[1] \in ascii_lowercase

\* lines 684-712: the command up to the send of the first embed
hangman(channel) ==
    /\ channel \notin DOMAIN hangman_games
    /\ hang[channel].pc = "idle"
    /\ \E word \in word_list :
          hangman_games' = start_game(hangman_games, channel, word)
    /\ hang' = [hang EXCEPT ![channel] = [pc |-> "send_initial", letter |-> ""]]
    /\ UNCHANGED <<baseVars, notHang>>

\* lines 690-692: the channel has a game, the command replies and returns
HangmanRefused(channel) ==
    /\ channel \in DOMAIN hangman_games
    /\ UNCHANGED vars

\* an await ctx.send of the command raised: no handler in the command catches
\* it, the command ends and leaves self.hangman.games as it is
HangRaise(channel) ==
    /\ hang' = [hang EXCEPT ![channel] = IdleHang]
    /\ UNCHANGED hangman_games

\* lines 712-726: the first embed is sent and the loop begins
HangInitialSent(channel) ==
    /\ hang[channel].pc = "send_initial"
    /\ \/ /\ hang' = [hang EXCEPT ![channel].pc = "wait"]
          /\ UNCHANGED hangman_games
       \/ HangRaise(channel)
    /\ UNCHANGED <<baseVars, notHang>>

\* lines 729-733: wait_for returns a message that passes the check and the
\* guess is processed; lines 735-791 up to the await ctx.send of the branch
HangGuess(channel, author, content) ==
    /\ hang[channel].pc = "wait"
    /\ HangCheck(author, content)
    /\ LET letter == Lower(Strip(content))[1]
           result == guess(hangman_games[channel], letter)
       IN  /\ hangman_games' = [hangman_games EXCEPT ![channel] = result.game]
           /\ hang' = [hang EXCEPT ![channel] =
                 [pc |-> IF result.already_guessed THEN "send_already"
                         ELSE IF result.status = "won" THEN "send_won"
                         ELSE IF result.status = "lost" THEN "send_lost"
                         ELSE "send_progress",
                  letter |-> letter]]
    /\ UNCHANGED <<baseVars, notHang>>

\* lines 794-802: wait_for raised asyncio.TimeoutError
HangTimeout(channel) ==
    /\ hang[channel].pc = "wait"
    /\ hang' = [hang EXCEPT ![channel] = [pc |-> "send_timeout", letter |-> ""]]
    /\ UNCHANGED hangman_games
    /\ UNCHANGED <<baseVars, notHang>>

\* lines 736-738 and 791-792: the reply to a guess that does not end the
\* game is sent and the loop waits again
HangGoOn(channel) ==
    /\ hang[channel].pc \in {"send_already", "send_progress"}
    /\ \/ /\ hang' = [hang EXCEPT ![channel] = [pc |-> "wait", letter |-> ""]]
          /\ UNCHANGED hangman_games
       \/ HangRaise(channel)
    /\ UNCHANGED <<baseVars, notHang>>

\* lines 756-758, 773-775 and 802-804: the last embed is sent, end_game
\* removes the game and the loop ends
HangEnd(channel) ==
    /\ hang[channel].pc \in {"send_won", "send_lost", "send_timeout"}
    /\ \/ /\ hangman_games' = end_game(hangman_games, channel)
          /\ hang' = [hang EXCEPT ![channel] = IdleHang]
       \/ HangRaise(channel)
    /\ UNCHANGED <<baseVars, notHang>>

HangInit == Init

HangNext ==
    \/ \E channel \in HangChannels : hangman(channel)
    \/ \E channel \in HangChannels : HangmanRefused(channel)
    \/ \E channel \in HangChannels : HangInitialSent(channel)
    \/ \E channel \in HangChannels, author \in Users, content \in HangContents :
          HangGuess(channel, author, content)
    \/ \E channel \in HangChannels : HangTimeout(channel)
    \/ \E channel \in HangChannels : HangGoOn(channel)
    \/ \E channel \in HangChannels : HangEnd(channel)

HangSpec == HangInit /\ [][HangNext]_vars

(***************************************************************************)
(* Number guessing (src/cogs/games.py, Games.number_guess).  The command   *)
(* stores the game, then runs the game loop; it is the only code that      *)
(* removes the game.                                                       *)
(***************************************************************************)
\* the argument max_number of !numguess
MaxNumberArgs == {9, 10, 36, 1000001}

\* message.content of what is written while a game runs
GuessContents ==
    {<<"0">>, <<"1">>, <<"2">>, <<"5">>, <<"1", "0">>, <<"1", "1">>,
     <<"3", "6">>, <<"x">>}

\* int(max_number ** 0.5) for the arguments above
RECURSIVE RootFrom(_, _)
RootFrom(n, k) == IF (k + 1) * (k + 1) > n THEN k ELSE RootFrom(n, k + 1)
IntRoot(n) == RootFrom(n, 0)

\* line 569
MaxAttemptsOf(max_number) ==
    IF IntRoot(max_number) > 5 THEN IntRoot(max_number) ELSE 5

\* lines 593-603: the check of wait_for
GuessCheck(author, content, max_number) ==
    /\ author \notin Bots
    /\ ~int(content).raised
    /\ int(content).value >= 1
    /\ int(content).value <= max_number

\* lines 547-589: the command up to the send of the instructions
number_guess(channel, max_number) ==
    /\ ng[channel] = "idle"
    /\ max_number >= 10
    /\ max_number <= 1000000
    /\ channel \notin DOMAIN guess_games
    /\ \E number \in 1..max_number :
          guess_games' = Put(guess_games, channel,
              [number |-> number, attempts |-> 0,
               max_attempts |-> MaxAttemptsOf(max_number),
               max_number |-> max_number])
    /\ ng' = [ng EXCEPT ![channel] = "send_instructions"]
    /\ UNCHANGED <<baseVars, notGuess>>

\* lines 553-564: a wrong argument or a channel that has a game
NumberGuessRefused(channel, max_number) ==
    /\ max_number < 10 \/ max_number > 1000000 \/ channel \in DOMAIN guess_games
    /\ UNCHANGED vars

\* an await ctx.send of the command raised: the command has no handler for
\* it, it ends and leaves self.guess_games as it is
GuessRaise(channel) ==
    /\ ng' = [ng EXCEPT ![channel] = "idle"]
    /\ UNCHANGED guess_games

\* lines 589-607: the instructions are sent and the loop begins
GuessInstructionsSent(channel) ==
    /\ ng[channel] = "send_instructions"
    /\ \/ /\ ng' = [ng EXCEPT ![channel] = "wait"]
          /\ UNCHANGED guess_games
       \/ GuessRaise(channel)
    /\ UNCHANGED <<baseVars, notGuess>>

\* lines 610-647: wait_for returns a message that passes the check; the
\* attempt is counted and the answer is about to be sent
GuessMade(channel, author, content) ==
    /\ ng[channel] = "wait"
    /\ GuessCheck(author, content, guess_games[channel].max_number)
    /\ guess_games' = [guess_games EXCEPT ![channel].attempts = @ + 1]
    /\ ng' = [ng EXCEPT ![channel] =
                 IF int(content).value = guess_games[channel].number
                 THEN "send_correct" ELSE "send_hint"]
    /\ UNCHANGED <<baseVars, notGuess>>

\* lines 649-655: wait_for raised asyncio.TimeoutError
GuessTimeout(channel) ==
    /\ ng[channel] = "wait"
    /\ ng' = [ng EXCEPT ![channel] = "send_timeout"]
    /\ UNCHANGED guess_games
    /\ UNCHANGED <<baseVars, notGuess>>

\* lines 646-647, 607 and 665-672: the hint is sent; the loop waits again
\* or, with no attempt left, goes on to the send of the game-over embed
GuessHintSent(channel) ==
    /\ ng[channel] = "send_hint"
    /\ \/ /\ ng' = [ng EXCEPT ![channel] =
                IF guess_games[channel].attempts < guess_games[channel].max_attempts
                THEN "wait" ELSE "send_gameover"]
          /\ UNCHANGED guess_games
       \/ GuessRaise(channel)
    /\ UNCHANGED <<baseVars, notGuess>>

\* lines 623-631, 655-663 and 672-679: the last embed is sent and the game
\* is removed
GuessEnd(channel) ==
    /\ ng[channel] \in {"send_correct", "send_timeout", "send_gameover"}
    /\ \/ /\ guess_games' = Del(guess_games, channel)
          /\ ng' = [ng EXCEPT ![channel] = "idle"]
       \/ GuessRaise(channel)
    /\ UNCHANGED <<baseVars, notGuess>>

GuessInit == Init

GuessNext ==
    \/ \E channel \in GuessChannels, max_number \in MaxNumberArgs :
          number_guess(channel, max_number)
    \/ \E channel \in GuessChannels, max_number \in MaxNumberArgs :
          NumberGuessRefused(channel, max_number)
    \/ \E channel \in GuessChannels : GuessInstructionsSent(channel)
    \/ \E channel \in GuessChannels, author \in Users, content \in GuessContents :
          GuessMade(channel, author, content)
    \/ \E channel \in GuessChannels : GuessTimeout(channel)
    \/ \E channel \in GuessChannels : GuessHintSent(channel)
    \/ \E channel \in GuessChannels : GuessEnd(channel)

GuessSpec == GuessInit /\ [][GuessNext]_vars

(***************************************************************************)
(* Tic-tac-toe (src/cogs/games.py): the command Games.tic_tac_toe, the     *)
(* class TicTacToeView and the callback of its nine buttons.               *)
(***************************************************************************)
\* who can press a button of the message, and who can be named as opponent
TttUsers == NonBots \cup {"u3"}
Opponents == TttUsers \cup Bots \cup {None}

\* lines 104-121
TicTacToeView(player1, player2) ==
    [board |-> EmptyBoard, current_player |-> X, player1 |-> player1,
     player2 |-> player2, finished |-> FALSE]

\* lines 123-158 without the check of the other diagonal (lines 147-152)
check_winner_one_diagonal(board) ==
    LET rows == {y \in Cells : board[y][0] + board[y][1] + board[y][2] \in {3, -3}}
        cols == {x \in Cells : board[0][x] + board[1][x] + board[2][x] \in {3, -3}}
        first(s) == CHOOSE i \in s : \A j \in s : i <= j
        of(value) == IF value = 3 THEN O ELSE X
        main == board[0][0] + board[1][1] + board[2][2]
    IN  IF rows # {}
        THEN of(board[first(rows)][0] + board[first(rows)][1] + board[first(rows)][2])
        ELSE IF cols # {}
        THEN of(board[0][first(cols)] + board[1][first(cols)] + board[2][first(cols)])
        ELSE IF main \in {3, -3} THEN of(main)
        ELSE IF \A i \in Cells, j \in Cells : board[i][j] # 0 THEN Tie
        ELSE NoWinner

\* lines 123-158
check_winner(board) ==
    LET rows == {y \in Cells : board[y][0] + board[y][1] + board[y][2] \in {3, -3}}
        cols == {x \in Cells : board[0][x] + board[1][x] + board[2][x] \in {3, -3}}
        first(s) == CHOOSE i \in s : \A j \in s : i <= j
        of(value) == IF value = 3 THEN O ELSE X
        main == board[0][0] + board[1][1] + board[2][2]
        other == board[0][2] + board[1][1] + board[2][0]
    IN  IF rows # {}
        THEN of(board[first(rows)][0] + board[first(rows)][1] + board[first(rows)][2])
        ELSE IF cols # {}
        THEN of(board[0][first(cols)] + board[1][first(cols)] + board[2][first(cols)])
        ELSE IF main \in {3, -3} THEN of(main)
        ELSE IF other \in {3, -3} THEN of(other)
        ELSE IF \A i \in Cells, j \in Cells : board[i][j] # 0 THEN Tie
        ELSE NoWinner

\* lines 504-524: the command creates the view and sends the message
tic_tac_toe(author, opponent) ==
    /\ view = NoView \/ view.finished
    /\ opponent # None
    /\ opponent # author
    /\ opponent \notin Bots
    /\ view' = TicTacToeView(author, opponent)
    /\ click' = None
    /\ UNCHANGED <<baseVars, notTtt>>

\* lines 511-521: no opponent, the author, or a bot
TicTacToeRefused(author, opponent) ==
    /\ opponent = None \/ opponent = author \/ opponent \in Bots
    /\ UNCHANGED vars

\* lines 58-97: user presses the button of column x and row y of a view
\* that is not stopped
callback(user, x, y) ==
    /\ view # NoView
    /\ ~view.finished
    /\ click' = user
    /\ IF view.board[y][x] \in {X, O}
       THEN UNCHANGED view
       ELSE LET board == [view.board EXCEPT ![y][x] = view.current_player]
            IN  view' = [view EXCEPT
                            !.board = board,
                            !.current_player = IF @ = X THEN O ELSE X,
                            !.finished = check_winner(board) # NoWinner]
    /\ UNCHANGED <<baseVars, notTtt>>

\* lines 160-171: nobody pressed a button for ten minutes
on_timeout ==
    /\ view # NoView
    /\ ~view.finished
    /\ view' = [view EXCEPT !.finished = TRUE]
    /\ click' = None
    /\ UNCHANGED <<baseVars, notTtt>>

TttInit == Init

TttNext ==
    \/ \E author \in TttUsers, opponent \in Opponents : tic_tac_toe(author, opponent)
    \/ \E author \in TttUsers, opponent \in Opponents : TicTacToeRefused(author, opponent)
    \/ \E user \in TttUsers, x \in Cells, y \in Cells : callback(user, x, y)
    \/ on_timeout

TttSpec == TttInit /\ [][TttNext]_vars

(***************************************************************************)
(* check_winner as a function of the board: every board over 0, X and O is *)
(* handed to it once.                                                      *)
(***************************************************************************)
AllBoards == [Cells -> [Cells -> {0, X, O}]]

WinInit ==
    /\ LifecycleInit
    /\ parseIn = <<>>
    /\ parseOut = NotCalled
    /\ CountingStart
    /\ RestStart
    /\ winIn \in AllBoards
    /\ winOut = WinNotCalled

\* lines 88-89: winner = view.check_winner()
CheckWinnerCall ==
    /\ winOut = WinNotCalled
    /\ winOut' = WinReturned(check_winner(winIn))
    /\ UNCHANGED <<baseVars, notWin, winIn>>

WinNext == CheckWinnerCall

WinSpec == WinInit /\ [][WinNext]_vars

(***************************************************************************)
(* The economy cog (src/cogs/economy.py): the balances in economy_data and *)
(* the commands that change them.  give, gamble, removecoins and setcoins  *)
(* write the balance before their first await; buy checks the balance,     *)
(* awaits process_purchase and deducts the price afterwards.               *)
(***************************************************************************)
\* line 50: the coins of a user who is seen for the first time
StartingCoins == 100

\* lines 522-528: the prices of the items bought in the model
Price(item) == CASE item = "namecolor" -> 2000 [] item = "lootbox" -> 500

\* the arguments of the commands
Amounts == {-100, 0, 2000}
Items == {"namecolor", "lootbox", "sword"}
Rolls == {39, 40, 59, 60, 89, 90}
Rewards == {250, 1000}

\* lines 46-57
get_user_data(data, user_id) ==
    IF user_id \in DOMAIN data THEN data
    ELSE Put(data, user_id, [coins |-> StartingCoins])

AddCoins(data, user_id, amount) == [data EXCEPT ![user_id].coins = @ + amount]

\* lines 279-281 without the debit of the sender
TransferNoDebit(data, sender, receiver, amount) ==
    AddCoins(get_user_data(data, receiver), receiver, amount)

\* lines 279-281
Transfer(data, sender, receiver, amount) ==
    AddCoins(AddCoins(get_user_data(data, receiver), sender, -amount),
             receiver, amount)

\* the balances stay within the bound of the model
Bounded(data) == \A u \in DOMAIN data : data[u].coins <= MaxCoins

\* lines 245-292
give(author, member, amount) ==
    /\ IF amount <= 0 \/ member = author \/ member \in Bots
       THEN /\ UNCHANGED economy_data
            /\ given' = [author |-> author, member |-> member,
                         amount |-> amount, done |-> FALSE]
       ELSE LET data == get_user_data(economy_data, author)
            IN  IF data[author].coins < amount
                THEN /\ economy_data' = data
                     /\ given' = [author |-> author, member |-> member,
                                  amount |-> amount, done |-> FALSE]
                ELSE /\ economy_data' = Transfer(data, author, member, amount)
                     /\ given' = [author |-> author, member |-> member,
                                  amount |-> amount, done |-> TRUE]
    /\ Bounded(economy_data')
    /\ UNCHANGED buying
    /\ UNCHANGED <<baseVars, notEcon>>

\* lines 328-342: what the roll does to the balance; int(amount * 1.5) for
\* the even amounts of the model
GambleGain(amount, roll) ==
    IF roll < 40 THEN -amount
    ELSE IF roll < 60 THEN 0
    ELSE IF roll < 90 THEN ((amount * 3) \div 2) - amount
    ELSE amount * 2 - amount

\* lines 295-349
gamble(author, amount, roll) ==
    /\ IF amount <= 0
       THEN UNCHANGED economy_data
       ELSE LET data == get_user_data(economy_data, author)
            IN  IF data[author].coins < amount
                THEN economy_data' = data
                ELSE economy_data' = AddCoins(data, author, GambleGain(amount, roll))
    /\ Bounded(economy_data')
    /\ given' = NoGive
    /\ UNCHANGED buying
    /\ UNCHANGED <<baseVars, notEcon>>

\* lines 857-890
remove_coins(member, amount) ==
    /\ IF amount <= 0
       THEN UNCHANGED economy_data
       ELSE LET data == get_user_data(economy_data, member)
            IN  IF data[member].coins < amount
                THEN economy_data' = [data EXCEPT ![member].coins = 0]
                ELSE economy_data' = AddCoins(data, member, -amount)
    /\ given' = NoGive
    /\ UNCHANGED buying
    /\ UNCHANGED <<baseVars, notEcon>>

\* lines 894-919
set_coins(member, amount) ==
    /\ IF amount < 0
       THEN UNCHANGED economy_data
       ELSE economy_data' =
               [get_user_data(economy_data, member) EXCEPT ![member].coins = amount]
    /\ given' = NoGive
    /\ UNCHANGED buying
    /\ UNCHANGED <<baseVars, notEcon>>

\* lines 511-545 and 576-631: the balance check of buy, and process_purchase
\* up to its first await.  The loot box has no await: its reward is added
\* and the price deducted in the same step (lines 578-586, 547-557).  The
\* name colour asks for the colour and waits for the answer (624-631).
buy(author, item_id) ==
    /\ author \notin DOMAIN buying
    /\ IF item_id \notin {"namecolor", "lootbox"}
       THEN UNCHANGED <<economy_data, buying>>
       ELSE LET data == get_user_data(economy_data, author)
            IN  IF data[author].coins < Price(item_id)
                THEN /\ economy_data' = data
                     /\ UNCHANGED buying
                ELSE IF item_id = "lootbox"
                THEN /\ \E reward \in Rewards :
                           economy_data' =
                              AddCoins(data, author, reward - Price(item_id))
                     /\ UNCHANGED buying
                ELSE /\ economy_data' = data
                     /\ buying' = Put(buying, author, item_id)
    /\ Bounded(economy_data')
    /\ given' = NoGive
    /\ UNCHANGED <<baseVars, notEcon>>

\* lines 631-710 and 547-557: process_purchase returns success and buy
\* deducts the price from the balance as it is now
PurchaseDone(author) ==
    /\ author \in DOMAIN buying
    /\ economy_data' = AddCoins(economy_data, author, -Price(buying[author]))
    /\ buying' = Del(buying, author)
    /\ given' = NoGive
    /\ UNCHANGED <<baseVars, notEcon>>

\* lines 624, 646-710 and 572-574: the colour is not valid, a role cannot
\* be written, nobody answers, or the send of the question raises: nothing
\* is deducted
PurchaseFailed(author) ==
    /\ author \in DOMAIN buying
    /\ buying' = Del(buying, author)
    /\ given' = NoGive
    /\ UNCHANGED economy_data
    /\ UNCHANGED <<baseVars, notEcon>>

EconInit == Init

EconNext ==
    \/ \E author \in NonBots, member \in Users, amount \in Amounts :
          give(author, member, amount)
    \/ \E author \in NonBots, amount \in Amounts, roll \in Rolls :
          gamble(author, amount, roll)
    \/ \E member \in NonBots, amount \in Amounts : remove_coins(member, amount)
    \/ \E member \in NonBots, amount \in Amounts : set_coins(member, amount)
    \/ \E author \in NonBots, item_id \in Items : buy(author, item_id)
    \/ \E author \in NonBots : PurchaseDone(author)
    \/ \E author \in NonBots : PurchaseFailed(author)

EconSpec == EconInit /\ [][EconNext]_vars

(***************************************************************************)
(* Timed mutes (src/cogs/moderation.py): mute_member adds the Muted role,  *)
(* stores the mute in muted_users and creates an unmute_task that sleeps   *)
(* for the duration; unmute_member removes the role and the entry.         *)
(***************************************************************************)
\* the argument duration of !mute; <<>> is no duration
MuteDurations == {<<>>, <<"1", "s">>, <<"2", "S">>, <<"1", "x">>, <<"s">>}

\* lines 372-391: the seconds of a duration; raised for a duration that is
\* refused
MuteSeconds(duration) ==
    IF duration = <<>> THEN Returned(0)
    ELSE LET unit == LowerChar(duration[Len(duration)])
             value == int(SubSeq(duration, 1, Len(duration) - 1))
         IN  IF value.raised THEN ValueError
             ELSE IF unit = "s" THEN Returned(value.value)
             ELSE IF unit = "m" THEN Returned(value.value * 60)
             ELSE IF unit = "h" THEN Returned(value.value * 3600)
             ELSE IF unit = "d" THEN Returned(value.value * 86400)
             ELSE ValueError

\* asyncio.sleep of the seconds of one mute is over
Tick ==
    /\ utcnow < MaxMuteTime
    /\ utcnow' = utcnow + 1
    /\ UNCHANGED <<muted_users, has_role, mute, unmute, timers, next_timer>>
    /\ UNCHANGED <<baseVars, notMute>>

\* lines 366-430: the command finds the member not muted, reads the
\* duration and goes on to member.add_roles
mute_member(member, duration) ==
    /\ mute[member].pc = "idle"
    /\ next_timer <= MaxTimers
    /\ member \notin has_role
    /\ ~MuteSeconds(duration).raised
    /\ mute' = [mute EXCEPT ![member] =
                   [pc |-> "add_roles", seconds |-> MuteSeconds(duration).value]]
    /\ UNCHANGED <<muted_users, has_role, unmute, timers, next_timer, utcnow>>
    /\ UNCHANGED <<baseVars, notMute>>

\* lines 367-369 and 387-391: the member is muted already, or the duration
\* is refused
MuteRefused(member, duration) ==
    /\ member \in has_role \/ MuteSeconds(duration).raised
    /\ UNCHANGED vars

\* line 433 and lines 449-452: member.add_roles returns, or it raises and
\* the command reports it
MuteAddRoles(member) ==
    /\ mute[member].pc = "add_roles"
    /\ \/ /\ has_role' = has_role \cup {member}
          /\ mute' = [mute EXCEPT ![member].pc = "send"]
       \/ /\ mute' = [mute EXCEPT ![member] = IdleMute]
          /\ UNCHANGED has_role
    /\ UNCHANGED <<muted_users, unmute, timers, next_timer, utcnow>>
    /\ UNCHANGED <<baseVars, notMute>>

\* lines 434-452: ctx.send returns; a mute with a duration is stored with
\* its expiration and its unmute_task is created; or ctx.send raises and
\* nothing is stored
MuteStored(member) ==
    /\ mute[member].pc = "send"
    /\ mute' = [mute EXCEPT ![member] = IdleMute]
    /\ \/ IF mute[member].seconds > 0
          THEN /\ muted_users' = Put(muted_users, member,
                     [expiration |-> utcnow + mute[member].seconds])
               /\ timers' = timers \cup
                     {[id |-> next_timer, member |-> member,
                       due |-> utcnow + mute[member].seconds, pc |-> "sleep"]}
               /\ next_timer' = next_timer + 1
          ELSE UNCHANGED <<muted_users, timers, next_timer>>
       \/ UNCHANGED <<muted_users, timers, next_timer>>
    /\ UNCHANGED <<has_role, unmute, utcnow>>
    /\ UNCHANGED <<baseVars, notMute>>

\* lines 456-476: the sleep of the task is over; the task pops the entry of
\* its member, whichever mute has stored it, and goes on to
\* member.remove_roles when the member has the role
TaskWakes(timer) ==
    /\ timer \in timers
    /\ timer.pc = "sleep"
    /\ timer.due <= utcnow
    /\ IF timer.member \notin DOMAIN muted_users
       THEN /\ timers' = timers \ {timer}
            /\ UNCHANGED muted_users
       ELSE /\ muted_users' = Del(muted_users, timer.member)
            /\ timers' = IF timer.member \in has_role
                         THEN (timers \ {timer}) \cup {[timer EXCEPT !.pc = "remove"]}
                         ELSE timers \ {timer}
    /\ UNCHANGED <<has_role, mute, unmute, next_timer, utcnow>>
    /\ UNCHANGED <<baseVars, notMute>>

\* lines 476-511: member.remove_roles of the task returns, or raises
TaskRemoved(timer) ==
    /\ timer \in timers
    /\ timer.pc = "remove"
    /\ timers' = timers \ {timer}
    /\ \/ has_role' = has_role \ {timer.member}
       \/ UNCHANGED has_role
    /\ UNCHANGED <<muted_users, mute, unmute, next_timer, utcnow>>
    /\ UNCHANGED <<baseVars, notMute>>

\* lines 454-476: an unmute_task of the member
unmute_task(member) ==
    \E timer \in timers : timer.member = member /\ TaskWakes(timer)

\* lines 476-511: an unmute_task of the member at member.remove_roles
TaskRemoveRoles(member) ==
    \E timer \in timers : timer.member = member /\ TaskRemoved(timer)

\* lines 515-558: the command finds the member muted and goes on to
\* member.remove_roles
unmute_member(member) ==
    /\ unmute[member] = "idle"
    /\ member \in has_role
    /\ unmute' = [unmute EXCEPT ![member] = "remove_roles"]
    /\ UNCHANGED <<muted_users, has_role, mute, timers, next_timer, utcnow>>
    /\ UNCHANGED <<baseVars, notMute>>

\* lines 561-570: member.remove_roles returns and the entry of the member
\* is deleted; the unmute_task of the mute goes on sleeping.  Or
\* remove_roles raises and the command reports it.
UnmuteRemoveRoles(member) ==
    /\ unmute[member] = "remove_roles"
    /\ unmute' = [unmute EXCEPT ![member] = "idle"]
    /\ \/ /\ has_role' = has_role \ {member}
          /\ muted_users' =
                IF member \in DOMAIN muted_users THEN Del(muted_users, member)
                ELSE muted_users
       \/ UNCHANGED <<has_role, muted_users>>
    /\ UNCHANGED <<mute, timers, next_timer, utcnow>>
    /\ UNCHANGED <<baseVars, notMute>>

MuteInit == Init

MuteNext ==
    \/ Tick
    \/ \E member \in Members, duration \in MuteDurations : mute_member(member, duration)
    \/ \E member \in Members, duration \in MuteDurations : MuteRefused(member, duration)
    \/ \E member \in Members : MuteAddRoles(member)
    \/ \E member \in Members : MuteStored(member)
    \/ \E member \in Members : unmute_task(member)
    \/ \E member \in Members : TaskRemoveRoles(member)
    \/ \E member \in Members : unmute_member(member)
    \/ \E member \in Members : UnmuteRemoveRoles(member)

MuteSpec == MuteInit /\ [][MuteNext]_vars

(***************************************************************************)
(* The states of a contest, read from the two flags.                       *)
(***************************************************************************)
Stored(id) == id \in DOMAIN active_giveaways
Active(id) == Stored(id) /\ ~active_giveaways[id].ended
Ended(id) ==
    Stored(id) /\ active_giveaways[id].ended /\ ~active_giveaways[id].cancelled
Cancelled(id) == Stored(id) /\ active_giveaways[id].cancelled

(***************************************************************************)
(* The duration format ^\d+[smhd]$ (unit in either case) and its value,    *)
(* written from the format's description.                                  *)
(***************************************************************************)
WellFormedDuration(str) ==
    /\ Len(str) >= 2
    /\ \A i \in 1..(Len(str) - 1) : IsDigit(str[i])
    /\ str[Len(str)] \in UnitChars \cup UpperUnitChars

DurationSeconds(str) ==
    LET u == str[Len(str)]
        mult == IF u \in {"s", "S"} THEN 1
                ELSE IF u \in {"m", "M"} THEN 60
                ELSE IF u \in {"h", "H"} THEN 3600
                ELSE 86400
    IN  DecimalValue(str, Len(str) - 1) * mult

\* a winner count: decimal digits, in 1..20
WellFormedWinners(str) ==
    /\ Len(str) >= 1
    /\ \A i \in 1..Len(str) : IsDigit(str[i])
    /\ DecimalValue(str, Len(str)) \in 1..MaxWinners

ArgumentErrors ==
    {"invalid_time_format", "time_not_positive", "winners_not_number",
     "winners_not_positive", "too_many_winners"}

\* the arguments of a create command that the command has to refuse
ArgsRefused(a) ==
    \/ ~WellFormedDuration(a[1])
    \/ DurationSeconds(a[1]) = 0
    \/ ~WellFormedWinners(a[2])

\* end_giveaway, called by c, has determined the winners of id and has not
\* returned yet
Settling(c, id) == eg[c].id = id /\ eg[c].pc \in {"edit", "send"}

\* the latest step was the task's and logged that id's channel or message
\* could not be found
ScheduledAbort(id) ==
    /\ reply = NoReply
    /\ \/ <<"channel_not_found", id>> \in log
       \/ <<"message_not_found", id>> \in log

(***************************************************************************)
(* C1: once the reconciliation loop has settled a contest, no later tick   *)
(* of the loop invokes settlement for that contest again: the task is      *)
(* never at the start of end_giveaway for a contest whose winners it has   *)
(* already determined.                                                     *)
(***************************************************************************)
C1_LoopSettlesAtMostOnce ==
    \A id \in Ids :
        ~(eg["tick"] = StartFrame(id, eg["tick"].wc) /\ "tick" \in settled[id])

(***************************************************************************)
(* C2: a cancelled contest never settles: in no step taken while a contest *)
(* is Cancelled does the task or the end command start end_giveaway for    *)
(* it.                                                                     *)
(***************************************************************************)
C2_CancelledNeverSettles ==
    [][\A id \in Ids, c \in Callers :
          (Cancelled(id) /\ eg[c].id # id) => eg'[c].id # id]_vars

(***************************************************************************)
(* C3: when the end command and a tick of the loop both target the same    *)
(* contest, at most one of them produces a settlement result: the two      *)
(* calls of end_giveaway are never both past the draw for the same         *)
(* contest.                                                                *)
(***************************************************************************)
C3_OneSettlementResult ==
    \A id \in Ids : ~(Settling("tick", id) /\ Settling("end", id))

(***************************************************************************)
(* C4: when the scheduled settlement of a contest finds the channel or the *)
(* message unavailable, the contest is left Active: its ended flag is      *)
(* still false after the step that logged the failure.                     *)
(***************************************************************************)
C4_AbortLeavesActive ==
    \A id \in Ids : (ScheduledAbort(id) /\ Stored(id)) => Active(id)

(***************************************************************************)
(* C5: every draw returns exactly k = min(winner_count, number of non-bot  *)
(* reactors) winners, pairwise distinct, each a non-bot user who reacted;  *)
(* with k = 0 the sequence of winners is empty.                            *)
(***************************************************************************)
C5_DrawIsSample ==
    draw.id # 0 =>
        LET entrants == draw.reactors \ Bots
            k == IF draw.wc <= Cardinality(entrants)
                 THEN draw.wc ELSE Cardinality(entrants)
        IN  /\ Stored(draw.id) => draw.wc = active_giveaways[draw.id].winner_count
            /\ Len(draw.winners) = k
            /\ \A i, j \in 1..Len(draw.winners) :
                   i # j => draw.winners[i] # draw.winners[j]
            /\ \A i \in 1..Len(draw.winners) :
                   draw.winners[i] \in draw.reactors /\ draw.winners[i] \notin Bots
            /\ k = 0 => draw.winners = <<>>

\* a contest of two winners is drawn among one user and a bot
C5_Witness ==
    /\ draw.id # 0
    /\ draw.wc = 2
    /\ draw.reactors = {"u1", "bot"}
    /\ draw.winners = <<"u1">>

(***************************************************************************)
(* C6: a settlement that reaches the message and finds no entrants (no     *)
(* giveaway reaction at all, or only bots among the reactors) yields zero  *)
(* winners, and the contest's ended flag is set.                           *)
(***************************************************************************)
C6_NoEntrantsStillEnded ==
    (draw.id # 0 /\ (~draw.reaction \/ draw.reactors \subseteq Bots)) =>
        /\ draw.winners = <<>>
        /\ Stored(draw.id) => active_giveaways[draw.id].ended

\* a draw over a reaction that only the bot has used
C6_Witness ==
    /\ draw.id # 0
    /\ draw.reaction
    /\ draw.reactors = {"bot"}
    /\ Ended(draw.id)

(***************************************************************************)
(* C7: a create command whose winner count is outside 1..20 or not a       *)
(* number, or whose duration is malformed or zero, replies with an         *)
(* argument error, posts nothing and leaves the store unchanged.           *)
(***************************************************************************)
C7_BadArgumentsRefused ==
    [][\A a \in CreateArgs :
          (ArgsRefused(a) /\ create_giveaway(a[1], a[2], a[3])) =>
              /\ reply'.text \in ArgumentErrors
              /\ create' = create
              /\ active_giveaways' = active_giveaways]_vars

(***************************************************************************)
(* C8: a create command with well-formed arguments takes the given winner  *)
(* count and prize and the end time now + duration, and the step that      *)
(* reports success inserts exactly one contest, under the id of the posted *)
(* message, Active, with these values; every other contest is unchanged.   *)
(***************************************************************************)
C8_CreateInsertsOne ==
    [][/\ create' # create =>
             \A a \in CreateArgs :
                (/\ ~ArgsRefused(a)
                 /\ create_giveaway(a[1], a[2], a[3])) =>
                    /\ create'.pc = "posting"
                    /\ create'.winners = DecimalValue(a[2], Len(a[2]))
                    /\ create'.prize = a[3]
                    /\ create'.end_time = now + DurationSeconds(a[1])
       /\ reply' = Reply("create", "created") =>
             /\ next_id \notin DOMAIN active_giveaways
             /\ DOMAIN active_giveaways' = DOMAIN active_giveaways \cup {next_id}
             /\ \A id \in DOMAIN active_giveaways :
                    active_giveaways'[id] = active_giveaways[id]
             /\ active_giveaways'[next_id].message_id = next_id
             /\ ~active_giveaways'[next_id].ended
             /\ ~active_giveaways'[next_id].cancelled
             /\ active_giveaways'[next_id].winner_count = create.winners
             /\ active_giveaways'[next_id].prize = create.prize
             /\ active_giveaways'[next_id].end_time = create.end_time]_vars

\* a second contest, of two winners, has just been created at time 1
C8_Witness ==
    /\ reply = Reply("create", "created")
    /\ DOMAIN active_giveaways = {1, 2}
    /\ Active(2)
    /\ active_giveaways[2].winner_count = 2
    /\ active_giveaways[2].prize = "p2"
    /\ active_giveaways[2].end_time = 2
    /\ active_giveaways[1].ended

(***************************************************************************)
(* C9: for one or more digits followed by exactly one of s, m, h, d, in    *)
(* either case, parse_time returns the digits' value times 1, 60, 3600 or  *)
(* 86400: 30s = 30, 5m = 300, 2h = 7200, 1d = 86400.                       *)
(***************************************************************************)
C9_ParseTimeValue ==
    /\ (parseOut # NotCalled /\ WellFormedDuration(parseIn)) =>
           parseOut = Returned(DurationSeconds(parseIn))
    /\ parseOut # NotCalled =>
           /\ parseIn = <<"3", "0", "s">> => parseOut = Returned(30)
           /\ parseIn = <<"5", "m">> => parseOut = Returned(300)
           /\ parseIn = <<"2", "h">> => parseOut = Returned(7200)
           /\ parseIn = <<"1", "d">> => parseOut = Returned(86400)

\* twelve hours, the unit in upper case
C9_Witness ==
    /\ parseIn = <<"1", "2", "H">>
    /\ parseOut = Returned(43200)

(***************************************************************************)
(* C10: parse_time raises the invalid-format error for every string that   *)
(* does not match ^\d+[smhd]$ over its whole length (unit in either case). *)
(***************************************************************************)
C10_ParseTimeRejects ==
    (parseOut # NotCalled /\ ~WellFormedDuration(parseIn)) => parseOut = ValueError

(***************************************************************************)
(* C11: what the list command shows is exactly the set of Active contests: *)
(* no contest that is Ended or Cancelled is in it.                         *)
(***************************************************************************)
C11_ListShowsActive ==
    reply.cmd = "list" =>
        /\ listed = {id \in Ids : Active(id)}
        /\ \A id \in listed : ~Ended(id) /\ ~Cancelled(id)
        /\ (reply.text = "none") = (listed = {})

\* the list is asked for with one contest cancelled and the other Active
C11_Witness ==
    /\ reply = Reply("list", "embed")
    /\ listed = {2}
    /\ Cancelled(1)

(***************************************************************************)
(* C12: reroll succeeds only on an Ended contest: invoked on a stored      *)
(* contest that is Active or Cancelled it replies that the contest has not *)
(* ended, starts no draw and changes nothing.                              *)
(***************************************************************************)
C12_RerollOnlyEnded ==
    [][\A id \in Ids :
          (Stored(id) /\ ~Ended(id) /\ reroll_giveaway(id)) =>
              /\ reply' = Reply("reroll", "not_ended")
              /\ reroll' = reroll
              /\ active_giveaways' = active_giveaways]_vars

C14_SettledNeverCancelled ==
    [][\A id \in Ids :
          (settled[id] # {} /\ ~Cancelled(id)) => ~Cancelled(id)']_vars

(***************************************************************************)
(* C15: an exception raised while the loop settles one contest is caught   *)
(* and logged, and the loop goes on: after the step that logged it the     *)
(* task is settling a later contest of its snapshot or sleeping until the  *)
(* next tick; it has not failed.                                           *)
(***************************************************************************)
C15_LoopSurvivesException ==
    (\E id \in Ids : <<"error_ending", id>> \in log) =>
        tick.pc \in {"in_end", "sleep"}

(***************************************************************************)
(* C16: when fetching the host, editing the giveaway message or sending    *)
(* the announcement raises in end_giveaway, the contest keeps the ended    *)
(* flag it was given at the start of the settlement and its record is not  *)
(* touched by the failing step: nothing is rolled back.                    *)
(***************************************************************************)
SettlementFailed(c) ==
    /\ eg[c].pc \in {"edit", "send"}
    /\ eg'[c] # eg[c]
    /\ IF c = "tick"
       THEN <<"error_ending", eg[c].id>> \in log'
       ELSE reply' = Reply("end", "error")

C16_FailureKeepsEnded ==
    [][\A c \in Callers :
          (SettlementFailed(c) /\ Stored(eg[c].id)) =>
              /\ active_giveaways[eg[c].id].ended
              /\ eg[c].id \in DOMAIN active_giveaways'
              /\ active_giveaways'[eg[c].id] = active_giveaways[eg[c].id]]_vars

C16_Witness ==
    /\ <<"error_ending", 1>> \in log
    /\ <<"exception", "send">> \in log
    /\ Ended(1)

(***************************************************************************)
(* C17: when the end command or the reroll command cannot find the         *)
(* contest's channel or message, the caller is told of an error and the    *)
(* step leaves every contest record as it was.                             *)
(***************************************************************************)
C17_UnavailableSurfaced ==
    [][/\ (/\ reply'.cmd = "end"
           /\ \E id \in Ids : \/ <<"channel_not_found", id>> \in log'
                              \/ <<"message_not_found", id>> \in log')
          => /\ reply'.text # "ended"
             /\ active_giveaways' = active_giveaways
       /\ (/\ reply'.cmd = "reroll"
           /\ reply'.text \in {"no_channel", "no_message"})
          => active_giveaways' = active_giveaways]_vars

(***************************************************************************)
(* The cog while the loop keeps ticking and Discord answers: the channel   *)
(* is in the cache, the giveaway message exists and no call raises, the    *)
(* cog is not unloaded.  Available tells it of what a step has produced.   *)
(* The event loop runs every task that is ready again and again, so the    *)
(* task check_giveaways takes its next step whenever it has one.           *)
(***************************************************************************)
Available ==
    /\ log = {}
    /\ reply \notin {Reply("end", "error"), Reply("cancel", "no_channel"),
                     Reply("cancel", "no_message"), Reply("cancel", "error"),
                     Reply("create", "error")}

LiveTick == (\E channel \in BOOLEAN : check_giveaways(channel)) /\ Available'
LiveFetchMessage(c) == EgFetchMessage(c) /\ Available'
LiveUsers(c) == EgUsers(c) /\ Available'
LiveEdit(c) == EgEdit(c) /\ Available'
LiveSend(c) == EgSend(c) /\ Available'
LiveEnd == (\E id \in Ids, channel \in BOOLEAN : end_giveaway_command(id, channel))
           /\ Available'
LiveCancel == (\E id \in Ids, channel \in BOOLEAN : cancel_giveaway(id, channel))
              /\ Available'
LiveCancelFetchMessage == CancelFetchMessage /\ Available'
LiveCancelFetchUser == CancelFetchUser /\ Available'
LiveCancelEdit == CancelEdit /\ Available'
LiveCreatePosted == CreatePosted /\ Available'

\* the steps of the task check_giveaways
TickStep ==
    \/ before_check_giveaways
    \/ LiveTick
    \/ LiveFetchMessage("tick")
    \/ LiveUsers("tick")
    \/ LiveEdit("tick")
    \/ LiveSend("tick")

LiveNext ==
    \/ Deliver
    \/ AdvanceClock
    \/ BotReady
    \/ before_check_giveaways
    \/ LiveTick
    \/ \E c \in Callers : LiveFetchMessage(c)
    \/ \E c \in Callers : LiveUsers(c)
    \/ \E c \in Callers : LiveEdit(c)
    \/ \E c \in Callers : LiveSend(c)
    \/ LiveEnd
    \/ LiveCancel
    \/ LiveCancelFetchMessage
    \/ LiveCancelFetchUser
    \/ LiveCancelEdit
    \/ \E a \in CreateArgs : create_giveaway(a[1], a[2], a[3])
    \/ LiveCreatePosted

LiveSpec ==
    /\ Init
    /\ [][LiveNext]_vars
    /\ WF_vars(Deliver)
    /\ SF_vars(BotReady)
    /\ SF_vars(TickStep)

(***************************************************************************)
(* C18: a contest that is Active with its end time reached is eventually   *)
(* settled (its ended flag set, winners drawn and announced), unless it is *)
(* cancelled, as long as the loop keeps ticking and the channel and the    *)
(* message stay available.                                                 *)
(***************************************************************************)
C18_DueEventuallySettled ==
    \A id \in Ids :
        (Active(id) /\ now >= active_giveaways[id].end_time)
            ~> (\/ Cancelled(id)
                \/ Stored(id) /\ active_giveaways[id].ended /\ settled[id] # {})

C18_Witness ==
    /\ announced = 1
    /\ "tick" \in settled[1]
    /\ Ended(1)
    /\ now >= active_giveaways[1].end_time

\* the task is in end_giveaway only for a contest whose end time the tick's
\* time has reached
TickSettlesOnlyDue ==
    \A id \in Ids :
        (Stored(id) /\ tick.pc = "in_end" /\ eg["tick"].id = id) =>
            /\ active_giveaways[id].end_time <= tick.now
            /\ tick.now <= now

\* an Active contest with its end time ahead stops being Active only in a
\* step of the end command or of the cancel command
FutureLeavesByCommand ==
    \A id \in Ids :
        (/\ Active(id)
         /\ active_giveaways[id].end_time > now
         /\ ~Active(id)')
        => \/ \E channel \in BOOLEAN : end_giveaway_command(id, channel)
           \/ cancel.id = id /\ (CancelFetchMessage \/ CancelFetchUser \/ CancelEdit)

(***************************************************************************)
(* C19: the loop settles a contest only when its end time is at or before  *)
(* the time the tick read: whenever the task is in end_giveaway for a      *)
(* contest, that contest's end time is not after the tick's time, which is *)
(* not after the clock.  A contest that is Active with its end time still  *)
(* ahead stops being Active only in a step of the end command or of the    *)
(* cancel command.                                                         *)
(***************************************************************************)
C19_OnlyDueSettled ==
    /\ []TickSettlesOnlyDue
    /\ [][FutureLeavesByCommand]_vars

C19_Witness ==
    /\ tick.pc = "in_end"
    /\ eg["tick"].id = 1
    /\ Active(2)
    /\ active_giveaways[2].end_time > now

(***************************************************************************)
(* C20: the end, cancel and reroll commands given an id that is not in     *)
(* active_giveaways reply that no giveaway was found, start nothing and    *)
(* leave active_giveaways as it was.                                       *)
(***************************************************************************)
C20_UnknownIdNotFound ==
    [][\A id \in Ids :
          ~Stored(id) =>
              /\ (\E channel \in BOOLEAN : end_giveaway_command(id, channel))
                 => /\ reply' = Reply("end", "not_found")
                    /\ active_giveaways' = active_giveaways
                    /\ eg' = eg /\ endcmd' = endcmd
              /\ (\E channel \in BOOLEAN : cancel_giveaway(id, channel))
                 => /\ reply' = Reply("cancel", "not_found")
                    /\ active_giveaways' = active_giveaways
                    /\ cancel' = cancel
              /\ reroll_giveaway(id)
                 => /\ reply' = Reply("reroll", "not_found")
                    /\ active_giveaways' = active_giveaways
                    /\ reroll' = reroll]_vars

C20_Witness ==
    /\ reply = Reply("cancel", "not_found")
    /\ Stored(1)
    /\ ~Stored(2)

(***************************************************************************)
(* C21: a reroll that gets as far as sampling returns exactly              *)
(* k = min(c, number of non-bot reactors it has just read) winners,        *)
(* pairwise distinct, each a non-bot user who reacted, where c is the      *)
(* number given as winners_str (between 1 and 20) and the contest's        *)
(* winner_count when none is given.                                        *)
(***************************************************************************)
C21_RerollIsSample ==
    rerolled.id # 0 =>
        LET entrants == rerolled.reactors \ Bots
            c == rerolled.wc
            k == IF c <= Cardinality(entrants) THEN c ELSE Cardinality(entrants)
        IN  /\ IF rerolled.winners_str = <<>>
               THEN Stored(rerolled.id) =>
                        c = active_giveaways[rerolled.id].winner_count
               ELSE /\ c = DecimalValue(rerolled.winners_str, Len(rerolled.winners_str))
                    /\ c \in 1..MaxWinners
            /\ Len(rerolled.winners) = k
            /\ \A i, j \in 1..Len(rerolled.winners) :
                   i # j => rerolled.winners[i] # rerolled.winners[j]
            /\ \A i \in 1..Len(rerolled.winners) :
                   /\ rerolled.winners[i] \in rerolled.reactors
                   /\ rerolled.winners[i] \notin Bots
            /\ (reply.text = "new_winners") = (k > 0)

\* a contest of two winners is rerolled for one winner among two users
C21_Witness ==
    /\ reply = Reply("reroll", "new_winners")
    /\ rerolled.id = 1
    /\ active_giveaways[1].winner_count = 2
    /\ rerolled.winners_str = <<"1">>
    /\ rerolled.reactors = {"u1", "u2", "bot"}
    /\ rerolled.winners = <<"u2">>

(***************************************************************************)
(* C22: no step of the reroll command, with or without a winner count of   *)
(* its own, changes a contest record: the ended and cancelled flags and    *)
(* the stored winner_count are the same after the step as before it.       *)
(***************************************************************************)
C22_RerollChangesNothing ==
    [][(reroll' # reroll \/ reply'.cmd = "reroll") =>
          active_giveaways' = active_giveaways]_vars

\* a contest of two winners has been rerolled for one and still has two
C22_Witness ==
    /\ reply = Reply("reroll", "new_winners")
    /\ rerolled.id = 1
    /\ rerolled.wc = 1
    /\ Len(rerolled.winners) = 1
    /\ Ended(1)
    /\ active_giveaways[1].winner_count = 2

(***************************************************************************)
(* C23: as long as the bot has not signalled readiness the task            *)
(* check_giveaways has run no iteration: it is still waiting in its        *)
(* before_loop hook (or was cancelled there), it is in no settlement and   *)
(* it has settled no contest, whatever contests have been created.         *)
(***************************************************************************)
C23_NoTickBeforeReady ==
    ~ready =>
        /\ tick.pc \in {"before_loop", "cancelled"}
        /\ tick.ids = <<>>
        /\ eg["tick"] = IdleFrame
        /\ \A id \in Ids : "tick" \notin settled[id]

\* a contest is past its end time and the bot is not ready yet
C23_Witness ==
    /\ ~ready
    /\ tick.pc = "before_loop"
    /\ Active(1)
    /\ now >= active_giveaways[1].end_time

\* the flags of every stored contest fit together: a contest is Active (no
\* flag set), Ended (ended alone) or Cancelled (both)
FlagsConsistent(store) ==
    \A id \in DOMAIN store : store[id].cancelled => store[id].ended

\* the task has been stopped: it is in no settlement and goes nowhere
StoppedForGood ==
    tick.pc = "cancelled" =>
        /\ tick' = tick
        /\ eg'["tick"] = IdleFrame
        /\ \A id \in Ids : "tick" \in settled'[id] => "tick" \in settled[id]
        /\ \A id \in Ids : <<"error_ending", id>> \notin log'

(***************************************************************************)
(* C24: cog_unload stops the task wherever it is, also while it is         *)
(* suspended inside end_giveaway.  The step of the stop changes no contest *)
(* record and leaves the task in no settlement; the flags of every record  *)
(* fit together at all times (a contest the task was settling has its      *)
(* ended flag set, every other one is as it was); and once stopped the     *)
(* task takes no step: it settles and announces nothing any more.          *)
(***************************************************************************)
C24_StopLeavesStoreConsistent ==
    /\ [](FlagsConsistent(active_giveaways)
          /\ (tick.pc = "cancelled" => eg["tick"] = IdleFrame))
    /\ [][/\ (tick.pc # "cancelled" /\ tick'.pc = "cancelled")
             => active_giveaways' = active_giveaways
          /\ (tick.pc = "in_end" /\ tick'.pc = "cancelled"
              /\ eg["tick"].id \in DOMAIN active_giveaways)
             => active_giveaways'[eg["tick"].id].ended
          /\ StoppedForGood]_vars

\* the task was stopped after it had marked contest 1 ended and before any
\* announcement; contest 2 is still Active and past its end time
C24_Witness ==
    /\ tick.pc = "cancelled"
    /\ tick.ids = <<1, 2>>
    /\ tick.i = 1
    /\ Ended(1)
    /\ settled[1] = {}
    /\ Active(2)

(***************************************************************************)
(* C25: the ended flag is never taken back: a stored contest whose ended   *)
(* flag is set (Ended or Cancelled) has it set after every step in which   *)
(* it stays in the store, whatever the step is (tick, settlement, end,     *)
(* cancel, reroll, list, create).                                          *)
(***************************************************************************)
C25_EndedStaysEnded ==
    [][\A id \in Ids :
          (Stored(id) /\ active_giveaways[id].ended /\ Stored(id)')
              => active_giveaways'[id].ended]_vars

\* the task is settling contest 1 a second time and the contest is Ended
C25_Witness ==
    /\ "tick" \in settled[1]
    /\ tick.pc = "in_end"
    /\ eg["tick"].id = 1
    /\ Ended(1)

\* what create_giveaway has stored about a contest, its flags left out
CreatedFields(giveaway) ==
    <<giveaway.message_id, giveaway.channel_id, giveaway.host_id, giveaway.prize,
      giveaway.winner_count, giveaway.end_time>>

(***************************************************************************)
(* C26: a stored contest keeps its id, channel, host, prize, winner_count  *)
(* and end_time through every step in which it stays in the store: no      *)
(* tick, settlement, end, cancel or reroll changes them.  Every stored     *)
(* winner_count is between 1 and 20 and every contest is stored under its  *)
(* own message id.                                                         *)
(***************************************************************************)
C26_FieldsImmutable ==
    /\ [](\A id \in DOMAIN active_giveaways :
             /\ active_giveaways[id].winner_count \in 1..MaxWinners
             /\ active_giveaways[id].message_id = id)
    /\ [][\A id \in Ids :
             (Stored(id) /\ Stored(id)') =>
                 CreatedFields(active_giveaways'[id])
                     = CreatedFields(active_giveaways[id])]_vars

\* contest 1 has just been settled by the task and is as it was created
C26_Witness ==
    /\ announced = 1
    /\ "tick" \in settled[1]
    /\ Ended(1)
    /\ CreatedFields(active_giveaways[1]) = <<1, TheChannel, Host, "p2", 2, 1>>

(***************************************************************************)
(* C27: a contest leaves active_giveaways only in a step of the cancel     *)
(* command in which the giveaway message turned out to be missing          *)
(* (channel.fetch_message or message.edit raised NotFound); no settlement, *)
(* end command, reroll or tick removes one; and the cancel command that    *)
(* cannot find the channel removes and changes nothing.                    *)
(***************************************************************************)
C27_RemovedOnlyWhenMessageMissing ==
    [][/\ \A id \in Ids :
             (Stored(id) /\ ~Stored(id)') =>
                 /\ cancel.id = id
                 /\ cancel.pc \in {"fetch_message", "edit"}
                 /\ reply' = Reply("cancel", "no_message")
       /\ reply' = Reply("cancel", "no_channel") =>
             active_giveaways' = active_giveaways]_vars

\* the keys of a giveaway dict (lines 137-145, and 'cancelled' of line 423)
GiveawayKeys ==
    {"channel_id", "message_id", "host_id", "prize", "winner_count", "end_time",
     "ended", "cancelled"}

\* the record of contest id holds winners as the winners of its latest draw
HasLastWinners(id, winners) ==
    /\ "last_winners" \in DOMAIN active_giveaways[id]
    /\ active_giveaways[id].last_winners = winners

C29_TickSurvivesRemoval == tick.pc # "failed"

\* What a step did to the count of a game that is stored before and after it.
CountOf(game) == <<game.next_number, game.last_user>>

\* C30: in an active counting channel a numeric message of a non-bot user is
\* accepted only if its number is next_number in strict mode (at least
\* next_number otherwise) and its author is not last_user; the acceptance
\* sets next_number to the number plus one and last_user to the author; a
\* message that is not accepted, and the error handler it started, leave
\* next_number and last_user unchanged or reset them to 1 and none.
C30_AcceptedOnlyInTurn ==
    [][\A channel \in CountChannels :
          (channel \in DOMAIN counting_channels /\ channel \in DOMAIN counting_channels')
          => LET game == counting_channels[channel]
                 after == counting_channels'[channel]
                 number == counted'.number
                 author == counted'.author
             IN  /\ counted'.kind = "accepted"
                    => /\ game.active
                       /\ author \in NonBots
                       /\ IF game.strict_mode THEN number = game.next_number
                                              ELSE number >= game.next_number
                       /\ author # game.last_user
                       /\ CountOf(after) = <<number + 1, author>>
                 /\ counted'.kind \in {"ignored", "wrong", "twice", "wrong_silent",
                                       "twice_silent", "restarted", "send_failed"}
                    => \/ CountOf(after) = CountOf(game)
                       \/ CountOf(after) = <<1, None>>
                 /\ counted'.kind \in {"ignored", "wrong", "twice", "wrong_silent",
                                       "twice_silent"}
                    => after = game]_vars

\* In non-strict mode u2 has written 3 and it was accepted, while the handler
\* of an earlier wrong number is still suspended before its reset.
C30_Witness ==
    /\ counted = Counted("accepted", "u2", 3)
    /\ "c1" \in DOMAIN counting_channels
    /\ ~counting_channels["c1"].strict_mode
    /\ CountOf(counting_channels["c1"]) = <<4, "u2">>
    /\ Suspended("c1", "wrong") \in pending

\* C31: whenever a user makes a mistake in an active counting channel (a
\* wrong number, or a second count in a row), the count restarts, whatever
\* the error mode of the channel is: when the handler of the message has
\* returned next_number is 1 and last_user is none, and a handler that is
\* still suspended in its report is kept to do the restart.
C31_MistakeRestarts ==
    [][\A channel \in DOMAIN counting_channels :
          /\ counted'.kind \in {"wrong_silent", "twice_silent"}
             => /\ channel \in DOMAIN counting_channels'
                /\ CountOf(counting_channels'[channel]) = <<1, None>>
          /\ counted'.kind \in {"wrong", "twice"}
             => Suspended(channel, counted'.kind) \in pending']_vars

\* C32: for every counting channel, after any sequence of messages and
\* counting commands, next_number is at least 1 and highest_count is at
\* least next_number minus 1, and no step on a game makes its highest_count
\* smaller.
C32_CountBounds ==
    /\ [](\A channel \in DOMAIN counting_channels :
             /\ counting_channels[channel].next_number >= 1
             /\ counting_channels[channel].highest_count
                   >= counting_channels[channel].next_number - 1)
    /\ [][\A channel \in DOMAIN counting_channels :
             channel \in DOMAIN counting_channels'
             => counting_channels'[channel].highest_count
                   >= counting_channels[channel].highest_count]_vars

\* The count was restarted by the handler of a mistake after it had reached
\* 3: the highest count is kept.
C32_Witness ==
    /\ counted.kind = "restarted"
    /\ "c1" \in DOMAIN counting_channels
    /\ CountOf(counting_channels["c1"]) = <<1, None>>
    /\ counting_channels["c1"].highest_count = 3

\* A step of the hangman loop of the channel that processes a guess.
GuessProcessed(channel) ==
    /\ hang[channel].pc = "wait"
    /\ hang'[channel].pc \in {"send_already", "send_won", "send_lost", "send_progress"}

\* C33: in a hangman game the remaining attempts stay within 0..6; a guess
\* takes exactly one attempt when its letter is new and not in the word, and
\* none otherwise; a repeated letter changes nothing; a game whose status is
\* won or lost is removed by the loop whose guess ended it, so that a stored
\* game is in progress whenever that loop is not about to remove it, and no
\* guess is processed with attempts at 0.
C33_HangmanAttempts ==
    /\ [](\A channel \in DOMAIN hangman_games :
             /\ hangman_games[channel].attempts \in 0..max_attempts
             /\ get_game_status(hangman_games[channel]) # "in_progress"
                => hang[channel].pc \in {"send_won", "send_lost"})
    /\ [][\A channel \in HangChannels :
             GuessProcessed(channel)
             => LET game == hangman_games[channel]
                    after == hangman_games'[channel]
                    letter == hang'[channel].letter
                IN  /\ game.attempts > 0
                    /\ after.attempts =
                          IF letter \notin game.guessed /\ letter \notin Letters(game.word)
                          THEN game.attempts - 1 ELSE game.attempts
                    /\ letter \in game.guessed => after = game]_vars

\* C34: a channel has at most one number-guessing game (one entry, run by
\* one command), the attempts of a game never exceed its max_attempts, and
\* whenever the game of a channel has ended (by a correct guess, a timeout,
\* the last attempt or a failed send: its command is no longer running) the
\* entry of the channel is removed from guess_games.
C34_GuessGameRemoved ==
    \A channel \in GuessChannels :
        /\ channel \in DOMAIN guess_games
           => guess_games[channel].attempts <= guess_games[channel].max_attempts
        /\ ng[channel] = "idle" => channel \notin DOMAIN guess_games

\* The player whose turn it is: player1 plays X, player2 plays O.
InTurn == IF view.current_player = X THEN view.player1 ELSE view.player2

\* C35: in tic-tac-toe a click places a mark only when it comes from the
\* player whose turn it is: a click by the other player or by a third user
\* leaves the board and current_player unchanged.
C35_OnlyPlayerInTurnMoves ==
    [][(view # NoView /\ click' \in TttUsers /\ click' # InTurn)
       => /\ view'.board = view.board
          /\ view'.current_player = view.current_player]_vars

\* The eight lines of the board as <<row, column>> cells, in the order in
\* which check_winner is said to scan them: rows, columns, main diagonal,
\* other diagonal.
ScanLines ==
    <<{<<0, 0>>, <<0, 1>>, <<0, 2>>}, {<<1, 0>>, <<1, 1>>, <<1, 2>>},
      {<<2, 0>>, <<2, 1>>, <<2, 2>>}, {<<0, 0>>, <<1, 0>>, <<2, 0>>},
      {<<0, 1>>, <<1, 1>>, <<2, 1>>}, {<<0, 2>>, <<1, 2>>, <<2, 2>>},
      {<<0, 0>>, <<1, 1>>, <<2, 2>>}, {<<0, 2>>, <<1, 1>>, <<2, 0>>}>>

Holds(board, i, mark) == \A cell \in ScanLines[i] : board[cell[1]][cell[2]] = mark

Full(board) == \A y \in Cells, x \in Cells : board[y][x] # 0

\* some line holds three of mark and none before it holds three of other
FirstLine(board, mark, other) ==
    \E i \in 1..8 : Holds(board, i, mark) /\ \A j \in 1..(i - 1) : ~Holds(board, j, other)

\* the winner of a game that stopped at its first win
ReferenceWinner(board) ==
    IF \E i \in 1..8 : Holds(board, i, X) THEN X
    ELSE IF \E i \in 1..8 : Holds(board, i, O) THEN O
    ELSE IF Full(board) THEN Tie
    ELSE NoWinner

\* the boards of the games: X begins, the marks alternate, and nothing is
\* placed after the first win
RECURSIVE PlayedFrom(_, _)
PlayedFrom(boards, mark) ==
    LET open == {b \in boards : ReferenceWinner(b) = NoWinner}
        next == UNION {{[b EXCEPT ![y][x] = mark] :
                           <<y, x>> \in {c \in Cells \X Cells : b[c[1]][c[2]] = 0}} :
                       b \in open}
    IN  IF next = {} THEN boards
        ELSE boards \cup PlayedFrom(next, IF mark = X THEN O ELSE X)

GameBoards == PlayedFrom({EmptyBoard}, X)

\* C36: for every 3x3 board over empty, X and O, check_winner returns X
\* exactly when some row, column or diagonal holds three X and none before
\* it in scan order holds three O, O symmetrically, Tie exactly when the
\* board is full with no complete line, and None otherwise; on every board
\* of a game of alternating moves that stops at the first win the result is
\* the reference winner of the game.
C36_CheckWinner ==
    winOut.called =>
        /\ (winOut.value = X) = FirstLine(winIn, X, O)
        /\ (winOut.value = O) = FirstLine(winIn, O, X)
        /\ (winOut.value = Tie) =
              (Full(winIn) /\ \A i \in 1..8 : ~Holds(winIn, i, X) /\ ~Holds(winIn, i, O))
        /\ (winOut.value = NoWinner) =
              (~Full(winIn) /\ \A i \in 1..8 : ~Holds(winIn, i, X) /\ ~Holds(winIn, i, O))
        /\ winOut.value \in {X, O, Tie, NoWinner}
        /\ winIn \in GameBoards => winOut.value = ReferenceWinner(winIn)

\* X has won a game on the other diagonal with the third mark.
C36_Witness ==
    /\ winOut = WinReturned(X)
    /\ winIn \in GameBoards
    /\ winIn = [EmptyBoard EXCEPT ![0][2] = X, ![1][1] = X, ![2][0] = X,
                                  ![0][0] = O, ![0][1] = O]

\* C37: no user's coin balance is ever negative, after any sequence of give,
\* gamble, buy, removecoins and setcoins commands, also when a buy that is
\* suspended between its balance check and its deduction interleaves with
\* a give or gamble of the same user.
C37_BalancesNonNegative ==
    \A user \in DOMAIN economy_data : economy_data[user].coins >= 0

\* The balance of a user; who has no record yet gets the starting coins with
\* the first command that reads the balance.
Balance(data, user) ==
    IF user \in DOMAIN data THEN data[user].coins ELSE StartingCoins

C39_TimerLiftsOwnMute ==
    [][\A timer \in timers :
          (timer.pc = "sleep" /\ timer \notin timers'
           /\ timer.member \in DOMAIN muted_users)
          => /\ muted_users[timer.member].expiration = timer.due
             /\ muted_users[timer.member].expiration <= utcnow]_vars

====
